---- MODULE Spec2Model ----
(***************************************************************************)
(* A model of the watchlist resolution of espn_api.basketball.League       *)
(* (src/espn_api/basketball/league.py, League.team_watchlist).             *)
(*                                                                         *)
(* JSON values are tagged records: a mapping is a sequence of key/value    *)
(* pairs in insertion order (Python dicts iterate in insertion order), a   *)
(* list is a sequence of values, and scalars are null, integers, strings.  *)
(***************************************************************************)
EXTENDS Integers, Sequences, FiniteSets, TLC

VARIABLES
  year,                      \* self.year of the League
  responses,                 \* what the request collaborator answers, per view
  pc,                        \* where the current team_watchlist call stands
  team_id, size,             \* the arguments of the current call
  data,                      \* the view whose response the local `data` holds
  entries_with_team,         \* the local `entries_with_team`
  has_player_watchlist_key,  \* the local `has_player_watchlist_key`
  seen_player_ids,           \* the local `seen_player_ids`
  selected_entries,          \* the local `selected_entries`, each with its team
  calls,                     \* the league_get requests of the current call
  prev,                      \* what the previous call left, if it had the same arguments
  fault,                     \* the exception league_get raised in the current call
  error,                     \* the exception that left the current call
  \* League.watchlist_players and the request stub of its tests
  wp_pc,                     \* where the watchlist_players call stands
  stub_responses,            \* WatchlistRequestStub.responses
  stub_calls,                \* WatchlistRequestStub.calls
  wp_args,                   \* the arguments limit, offset, season_ids of the call
  season_ids,                \* the candidate seasons the call probes
  attempt,                   \* the position in season_ids of the next probe
  players,                   \* the entries watchlist_players returns
  returned,                  \* the pages the stub has answered with, in order
  \* get_live_plus_minus and the HTTP session it is given
  pm_pc,                     \* where the get_live_plus_minus call stands
  player_name,               \* the argument player_name
  web,                       \* what the scoreboard and box score URLs hold
  requested_urls,            \* the URLs requested from the session, in order
  outcomes,                  \* how each request ended: "ok" or the error
  pending,                   \* the competitions not yet dealt with, in order
  pm_value,                  \* the value get_live_plus_minus returns
  \* League.transactions
  TRANSACTION_TYPES,         \* the set imported from espn_api.basketball.constant
  tx_data,                   \* what league_get answers to the transactions request
  tx_pc,                     \* where the transactions call stands
  tx_types,                  \* the argument types
  tx_calls,                  \* the league_get requests of the call
  tx_error,                  \* the exception that left the call
  tx_result,                 \* the number of Transaction objects returned
  \* NBAWatchlistApp: the columns of the two tables
  column_order,              \* player_column_order and watchlist_column_order
  visibility_vars,           \* _column_visibility_vars: the BooleanVar of each column
  config_visible,            \* the "visible" flag of each column's config
  displaycolumns,            \* the displaycolumns each tree is configured with
  curselection,              \* the selected row of each column listbox
  last_click,                \* the last checkbutton clicked, and whether it was reverted
  \* NBAWatchlistApp: league, watchlist, preferences and live plus/minus
  league,                    \* self.league: the League loaded, if any
  league_id_var, year_var,   \* the League ID and Season Year input fields
  watchlist_ids,             \* self.watchlist_ids
  saved_preferences,         \* self._saved_preferences, as written to the file
  closed,                    \* whether _on_close has destroyed the window
  today,                     \* each player's stats entry of the current scoring period
  cache,                     \* self._live_plus_minus_cache
  live_calls,                \* per player, the outcomes of the get_live_plus_minus
                             \* calls made since the cache was last emptied
  last_metrics               \* the last direct _get_today_metrics call and its result

\* the state of team_watchlist, without self.year
tw_vars == <<responses, pc, team_id, size, data, entries_with_team,
             has_player_watchlist_key, seen_player_ids, selected_entries, calls, prev,
             fault, error>>

\* the state of watchlist_players
wp_vars == <<wp_pc, stub_responses, stub_calls, wp_args, season_ids, attempt, players,
             returned>>

\* the state of get_live_plus_minus
pm_vars == <<pm_pc, player_name, web, requested_urls, outcomes, pending, pm_value>>

\* the state of transactions
tx_vars == <<TRANSACTION_TYPES, tx_data, tx_pc, tx_types, tx_calls, tx_error, tx_result>>

\* the state of the column options of NBAWatchlistApp
col_vars == <<column_order, visibility_vars, config_visible, displaycolumns, curselection,
              last_click>>

\* the state of the league, watchlist and preferences of NBAWatchlistApp
app_vars == <<league, league_id_var, year_var, watchlist_ids, saved_preferences, closed,
              today, cache, live_calls, last_metrics>>

vars == <<year, tw_vars, wp_vars, pm_vars, tx_vars, col_vars, app_vars>>

(***************************************************************************)
(* Bounds of the model.                                                    *)
(***************************************************************************)
\* the longest list of watchlist entries a payload holds
MaxEntries == 2
\* the largest size a caller asks for (the smallest is -1)
MaxSize == 2

(***************************************************************************)
(* Program constants.                                                      *)
(***************************************************************************)
\* league.py line 235: if self.year < 2019: raise
MinWatchlistYear == 2019

(***************************************************************************)
(* JSON / Python values.                                                   *)
(***************************************************************************)
None == [t |-> "null"]
JInt(n) == [t |-> "int", n |-> n]
JStr(s) == [t |-> "str", s |-> s]
JList(items) == [t |-> "list", items |-> items]
JDict(kv) == [t |-> "dict", kv |-> kv]
KV(k, v) == [k |-> k, v |-> v]

\* isinstance(x, dict), isinstance(x, list), isinstance(x, int)
IsDict(x) == x.t = "dict"
IsList(x) == x.t = "list"
IsInt(x) == x.t = "int"

\* key in d
HasKey(d, key) == \E i \in 1..Len(d.kv) : d.kv[i].k = key

\* d.get(key): the value stored under key, None when the key is absent
Get(d, key) ==
  IF HasKey(d, key)
    THEN d.kv[CHOOSE i \in 1..Len(d.kv) : d.kv[i].k = key].v
    ELSE None

\* Python truthiness of a JSON value
Truthy(x) ==
  CASE x.t = "null" -> FALSE
    [] x.t = "int"  -> x.n # 0
    [] x.t = "str"  -> x.s # ""
    [] x.t = "list" -> x.items # <<>>
    [] x.t = "dict" -> x.kv # <<>>

\* a or b
PyOr(a, b) == IF Truthy(a) THEN a ELSE b

\* key.lower() on the keys that occur in the modelled payloads
KeyLower(key) ==
  CASE key = "playerWatchList" -> "playerwatchlist"
    [] key = "WatchedPlayers"  -> "watchedplayers"
    [] key = "teamId"          -> "teamid"
    [] key = "playerId"        -> "playerid"
    [] key = "playerPoolEntry" -> "playerpoolentry"
    [] OTHER                   -> key

\* 'watch' in key_lower, on the lower-cased keys of the modelled payloads
ContainsWatch(key_lower) ==
  key_lower \in {"playerwatchlist", "watchlists", "watchlist", "watchedplayers"}

(***************************************************************************)
(* _collect_watchlist_entries: the stack-based tree walk.                  *)
(***************************************************************************)
Frame(node, include_children, current_team) ==
  [node |-> node, include |-> include_children, team |-> current_team]

\* DictChildren with `next_include = 'watch' in key_lower`: the flag of the
\* parent is forgotten
DictChildrenNoInherit(current, include_children, team_value) ==
  LET kept == SelectSeq(current.kv, LAMBDA p : IsDict(p.v) \/ IsList(p.v))
  IN  [i \in 1..Len(kept) |->
         Frame(kept[i].v, ContainsWatch(KeyLower(kept[i].k)), team_value)]

\* the frames pushed for the items of a mapping, in iteration order
DictChildren(current, include_children, team_value) ==
  LET kept == SelectSeq(current.kv, LAMBDA p : IsDict(p.v) \/ IsList(p.v))
  IN  [i \in 1..Len(kept) |->
         Frame(kept[i].v,
               include_children \/ ContainsWatch(KeyLower(kept[i].k)),
               team_value)]

\* ListChildren with the include flag reset for the items of a list
ListChildrenFlagLost(current, include_children, current_team) ==
  LET kept == SelectSeq(current.items, LAMBDA x : IsDict(x) \/ IsList(x))
  IN  [i \in 1..Len(kept) |-> Frame(kept[i], FALSE, current_team)]

\* the frames pushed for the items of a list, in order
ListChildren(current, include_children, current_team) ==
  LET kept == SelectSeq(current.items, LAMBDA x : IsDict(x) \/ IsList(x))
  IN  [i \in 1..Len(kept) |-> Frame(kept[i], include_children, current_team)]

\* TeamValue where an inherited team is never replaced
TeamValueFirstSeen(current, current_team) ==
  IF current_team # None THEN current_team
  ELSE IF IsInt(Get(current, "teamId")) THEN Get(current, "teamId") ELSE None

\* the team a mapping passes on: its own integer teamId, else the inherited one
TeamValue(current, current_team) ==
  IF IsInt(Get(current, "teamId")) THEN Get(current, "teamId") ELSE current_team

\* Captured without the include flag: any mapping with a player is an entry
CapturedAnywhere(current, include_children) ==
  HasKey(current, "player") /\ IsDict(Get(current, "player"))

\* whether a mapping is captured as an entry
Captured(current, include_children) ==
  include_children /\ HasKey(current, "player") /\ IsDict(Get(current, "player"))

RECURSIVE WalkStackDescends(_, _)
\* WalkStack without the `continue` of line 255: the children of a captured
\* mapping are pushed as well
WalkStackDescends(stack, entries) ==
  IF stack = <<>> THEN entries
  ELSE
    LET top     == stack[Len(stack)]
        rest    == SubSeq(stack, 1, Len(stack) - 1)
        current == top.node
    IN  IF IsDict(current)
          THEN LET team_value == TeamValue(current, top.team)
                   below == rest \o DictChildren(current, top.include, team_value)
               IN  IF Captured(current, top.include)
                     THEN WalkStackDescends(below,
                            Append(entries, [team |-> team_value, entry |-> current]))
                     ELSE WalkStackDescends(below, entries)
          ELSE IF IsList(current)
            THEN WalkStackDescends(rest \o ListChildren(current, top.include, top.team),
                                   entries)
            ELSE WalkStackDescends(rest, entries)

RECURSIVE WalkStack(_, _)
\* the while loop: stack.pop() takes the last frame pushed
WalkStack(stack, entries) ==
  IF stack = <<>> THEN entries
  ELSE
    LET top     == stack[Len(stack)]
        rest    == SubSeq(stack, 1, Len(stack) - 1)
        current == top.node
    IN  IF IsDict(current)
          THEN LET team_value == TeamValue(current, top.team)
               IN  IF Captured(current, top.include)
                     THEN WalkStack(rest,
                            Append(entries, [team |-> team_value, entry |-> current]))
                     ELSE WalkStack(
                            rest \o DictChildren(current, top.include, team_value),
                            entries)
          ELSE IF IsList(current)
            THEN WalkStack(rest \o ListChildren(current, top.include, top.team), entries)
            ELSE WalkStack(rest, entries)

CollectWatchlistEntries(node) == WalkStack(<<Frame(node, FALSE, None)>>, <<>>)

(***************************************************************************)
(* The legacy response and the straightforward keys (lines 289-304).       *)
(***************************************************************************)
\* [(team, entry) for entry in items if isinstance(entry, dict)]
EntriesOf(items, team) ==
  LET kept == SelectSeq(items, LAMBDA x : IsDict(x))
  IN  [i \in 1..Len(kept) |-> [team |-> team, entry |-> kept[i]]]

\* lines 289-295 and 298-304: the players list, else the watchlist.players list,
\* of a response; `found` tells whether one of the two assignments ran
KeyedEntries(response, team) ==
  IF ~IsDict(response) THEN [found |-> FALSE, entries |-> <<>>]
  ELSE IF IsList(Get(response, "players"))
    THEN [found |-> TRUE, entries |-> EntriesOf(Get(response, "players").items, team)]
  ELSE IF IsDict(Get(response, "watchlist"))
          /\ IsList(Get(Get(response, "watchlist"), "players"))
    THEN [found |-> TRUE,
          entries |-> EntriesOf(Get(Get(response, "watchlist"), "players").items, team)]
  ELSE [found |-> FALSE, entries |-> <<>>]

\* lines 289-295: entries_with_team after the legacy response arrived
LegacyEntries(response, entries, team) ==
  LET keyed == KeyedEntries(response, team)
  IN  IF keyed.found THEN keyed.entries ELSE entries

\* lines 297-304: if still no entries, the straightforward keys of `data`
StraightforwardEntries(response, entries) ==
  IF entries = <<>> /\ IsDict(response)
    THEN LET keyed == KeyedEntries(response, None)
         IN  IF keyed.found THEN keyed.entries ELSE entries
    ELSE entries

(***************************************************************************)
(* The two selection loops (lines 306-341).  A selected entry keeps the    *)
(* team the walk attributed to it, so that the attribution of a returned   *)
(* entry can be stated; the code appends the entry alone.                  *)
(***************************************************************************)
\* entry.get('player') if isinstance(entry, dict) else None
PlayerPayload(entry) == IF IsDict(entry) THEN Get(entry, "player") ELSE None

\* entry.get('playerId') or player_payload.get('id')
PlayerIdOf(entry) == PyOr(Get(entry, "playerId"), Get(PlayerPayload(entry), "id"))

\* the team test left out: no entry is skipped for its team
OtherTeamNever(entry_team, team) == FALSE

\* line 309: the team test of the first loop
OtherTeam(entry_team, team) ==
  team # None /\ entry_team # None /\ entry_team # team

RECURSIVE SelectLoopNoDedup(_, _, _, _, _, _, _)
\* SelectLoop without the test against seen_player_ids
SelectLoopNoDedup(entries, i, selected, seen, team, n, by_team) ==
  IF i > Len(entries) THEN [selected |-> selected, seen |-> seen]
  ELSE
    LET e == entries[i]
    IN  IF by_team /\ OtherTeam(e.team, team)
          THEN SelectLoopNoDedup(entries, i + 1, selected, seen, team, n, by_team)
        ELSE IF ~IsDict(PlayerPayload(e.entry))
          THEN SelectLoopNoDedup(entries, i + 1, selected, seen, team, n, by_team)
        ELSE
          LET selected2 == Append(selected, e)
              seen2     == seen \cup {PlayerIdOf(e.entry)}
          IN  IF Len(selected2) >= n
                THEN [selected |-> selected2, seen |-> seen2]
                ELSE SelectLoopNoDedup(entries, i + 1, selected2, seen2, team, n, by_team)

RECURSIVE SelectLoop(_, _, _, _, _, _, _)
\* one of the two for loops, from position i on; by_team is TRUE in the first
SelectLoop(entries, i, selected, seen, team, n, by_team) ==
  IF i > Len(entries) THEN [selected |-> selected, seen |-> seen]
  ELSE
    LET e == entries[i]
    IN  IF by_team /\ OtherTeam(e.team, team)
          THEN SelectLoop(entries, i + 1, selected, seen, team, n, by_team)
        ELSE IF ~IsDict(PlayerPayload(e.entry))
          THEN SelectLoop(entries, i + 1, selected, seen, team, n, by_team)
        ELSE IF PlayerIdOf(e.entry) \in seen
          THEN SelectLoop(entries, i + 1, selected, seen, team, n, by_team)
        ELSE
          LET selected2 == Append(selected, e)
              seen2     == seen \cup {PlayerIdOf(e.entry)}
          IN  IF Len(selected2) >= n
                THEN [selected |-> selected2, seen |-> seen2]
                ELSE SelectLoop(entries, i + 1, selected2, seen2, team, n, by_team)

\* seen_player_ids kept from the previous call instead of a new set
SeenLeftOver == IF prev.known THEN prev.seen ELSE {}

\* line 307: seen_player_ids = set()
SeenAtStart == {}

\* SelectEntries with the any-team loop run whenever a team is given
SelectEntriesAlwaysAnyTeam(entries, team, n) ==
  LET first == SelectLoop(entries, 1, <<>>, SeenAtStart, team, n, TRUE)
  IN  IF team # None /\ Len(first.selected) < n
        THEN SelectLoop(entries, 1, first.selected, first.seen, team, n, FALSE)
        ELSE first

\* lines 306-341: the team loop, then the any-team loop if nothing was selected
SelectEntries(entries, team, n) ==
  LET first == SelectLoop(entries, 1, <<>>, SeenAtStart, team, n, TRUE)
  IN  IF first.selected = <<>> /\ team # None
        THEN SelectLoop(entries, 1, first.selected, first.seen, team, n, FALSE)
        ELSE first

\* line 344: one player record per selected entry, in order
Entries(selected) == [i \in 1..Len(selected) |-> selected[i].entry]

(***************************************************************************)
(* The payloads the collaborator may answer with.  They follow the shapes  *)
(* of tests/basketball/unit/test_watchlist.py and of the walk's cases.     *)
(***************************************************************************)
\* sequences over S of length at most n
RECURSIVE SeqsUpTo(_, _)
SeqsUpTo(S, n) ==
  IF n = 0 THEN {<<>>}
  ELSE LET shorter == SeqsUpTo(S, n - 1)
       IN  shorter \cup {Append(q, x) : q \in {r \in shorter : Len(r) = n - 1}, x \in S}

\* a field that is left out when its value is None
Field(key, value) == IF value = None THEN <<>> ELSE <<KV(key, value)>>

\* {"player": {"id": nid}, "playerId": pid}
Entry(pid, nid) ==
  JDict(<<KV("player", JDict(Field("id", nid)))>> \o Field("playerId", pid))

\* {"lineupSlotId": 0, "playerPoolEntry": entry}
PoolEntry(entry) ==
  JDict(<<KV("lineupSlotId", JInt(0)), KV("playerPoolEntry", entry)>>)

\* an entry that also holds a playerPoolEntry naming another player
NestedEntry(entry) ==
  JDict(entry.kv \o <<KV("playerPoolEntry", Entry(None, JInt(909)))>>)

\* an entry with a teamId of its own
OwnTeamEntry(entry, tid) == JDict(entry.kv \o <<KV("teamId", tid)>>)

\* {"teamId": tid, "entries": [...]}
Watchlist(tid, entries) ==
  JDict(Field("teamId", tid) \o <<KV("entries", JList(entries))>>)

\* {"playerWatchList": {"watchlists": [...]}}
PlayerWatchList(watchlists) ==
  JDict(<<KV("playerWatchList", JDict(<<KV("watchlists", JList(watchlists))>>))>>)

MapSeq(Op(_), q) == [i \in 1..Len(q) |-> Op(q[i])]

E101 == Entry(JInt(101), JInt(101))
E202 == Entry(JInt(202), JInt(202))

\* the entries, malformed entries and non-mappings that payloads are built
\* from, by name
Item(name) ==
  CASE name = "E101"  -> E101
    [] name = "E202"  -> E202
    [] name = "noPlayerId101" -> Entry(None, JInt(101))
    [] name = "noIds" -> Entry(None, None)
    [] name = "zero101" -> Entry(JInt(0), JInt(101))
    [] name = "zero202" -> Entry(JInt(0), JInt(202))
    [] name = "team4E202" -> OwnTeamEntry(E202, JInt(4))
    [] name = "noPlayer101" -> JDict(<<KV("playerId", JInt(101))>>)
    [] name = "five" -> JInt(5)

\* a team of a payload: 0 stands for a mapping without teamId
Team(t) == IF t = 0 THEN None ELSE JInt(t)

Items(es) == MapSeq(LAMBDA e : Item(e.entry), es)

\* the JSON value a response descriptor [shape, tid, es] stands for; es is a
\* sequence of [team, entry] and only the shape "each" reads the teams
Payload(d) ==
  CASE d.shape = "each" ->
         PlayerWatchList(
           MapSeq(LAMBDA e : Watchlist(Team(e.team), <<Item(e.entry)>>), d.es))
    [] d.shape = "single" -> PlayerWatchList(<<Watchlist(Team(d.tid), Items(d.es))>>)
    [] d.shape = "pool"   ->
         PlayerWatchList(<<Watchlist(Team(d.tid), MapSeq(PoolEntry, Items(d.es)))>>)
    [] d.shape = "nested" ->
         PlayerWatchList(<<Watchlist(Team(d.tid), MapSeq(NestedEntry, Items(d.es)))>>)
    [] d.shape = "strteam" -> PlayerWatchList(<<Watchlist(JStr("7"), Items(d.es))>>)
    [] d.shape = "sibling" ->
         PlayerWatchList(<<Watchlist(Team(d.tid), <<>>), Watchlist(None, Items(d.es))>>)
    [] d.shape = "roster" ->
         JDict(<<KV("teams", JList(<<JDict(<<KV("teamId", Team(d.tid)),
                 KV("roster", JDict(<<KV("entries", JList(Items(d.es)))>>))>>)>>))>>)
    [] d.shape = "upper"  -> JDict(<<KV("WatchedPlayers", JList(Items(d.es)))>>)
    [] d.shape = "keyonly" ->
         JDict(<<KV("playerWatchList", JDict(<<>>)), KV("players", JList(Items(d.es)))>>)
    [] d.shape = "watchlist" ->
         JDict(<<KV("watchlist", JDict(<<KV("players", JList(Items(d.es)))>>))>>)
    [] d.shape = "players" -> JDict(<<KV("players", JList(Items(d.es)))>>)
    [] d.shape = "notlist" ->
         JDict(<<KV("players", JInt(0)),
                 KV("watchlist", JDict(<<KV("players", JList(Items(d.es)))>>))>>)
    [] d.shape = "null"   -> None
    [] d.shape = "int"    -> JInt(5)
    [] d.shape = "str"    -> JStr("error")
    [] d.shape = "list"   -> JList(Items(d.es))
    [] d.shape = "empty"  -> JDict(<<>>)
    [] d.shape = "other"  ->
         JDict(<<KV("foo", JDict(<<KV("bar", JList(<<JInt(1)>>))>>))>>)

Desc(shape, tid, es) == [shape |-> shape, tid |-> tid, es |-> es]

\* responses without any recognizable structure
Unstructured ==
  {Desc(shape, 0, <<>>) : shape \in {"null", "int", "str", "empty", "other"}}
    \cup {Desc("list", 0, <<[team |-> 0, entry |-> "E101"]>>)}

\* one watchlist per entry, each with a team of its own (or none)
TeamItems ==
  [team : {0, 4, 7}, entry : {"E101", "E202", "noPlayerId101", "noIds"}]

\* playerId 0 is falsy: the nested id decides
ZeroIdItems == [team : {7}, entry : {"zero101", "zero202", "E101"}]

CoreLists == SeqsUpTo([team : {0}, entry : {"E101", "E202"}], MaxEntries)

PrimaryShapes == {"single", "pool", "nested", "strteam", "sibling", "roster",
                  "upper", "keyonly", "watchlist", "players"}

Primaries ==
  {Desc("each", 0, es) : es \in SeqsUpTo(TeamItems, MaxEntries)}
    \cup {Desc("each", 0, es) : es \in SeqsUpTo(ZeroIdItems, MaxEntries)}
    \cup {Desc(shape, tid, es) : shape \in PrimaryShapes, tid \in {4, 7}, es \in CoreLists}
    \cup {Desc("single", 7, es) :
            es \in SeqsUpTo([team : {0}, entry : {"team4E202", "E101"}], MaxEntries)}
    \cup Unstructured

\* the few primary responses that are paired with every legacy response
BarePrimaries ==
  {Desc("empty", 0, <<>>), Desc("null", 0, <<>>),
   Desc("players", 7, <<[team |-> 0, entry |-> "E202"]>>),
   Desc("roster", 7, <<[team |-> 0, entry |-> "E202"]>>)}

\* items of a legacy players list: entries, malformed entries, non-mappings
LegacyItems ==
  [team : {0},
   entry : {"E101", "E202", "team4E202", "noPlayer101", "five"}]

Legacies ==
  {Desc(shape, 0, es) :
     shape \in {"players", "watchlist", "notlist"},
     es \in SeqsUpTo(LegacyItems, MaxEntries)}
    \cup Unstructured

\* the legacy response that is paired with every primary response
BareLegacies == {Desc("players", 0, <<[team |-> 0, entry |-> "E101"]>>)}

ResponsePairs ==
  {[player_wl |-> p, mWatchlist |-> l] : p \in Primaries, l \in BareLegacies}
    \cup {[player_wl |-> p, mWatchlist |-> l] : p \in BarePrimaries, l \in Legacies}

\* the team_id and size arguments of a call
TeamIds == {None, JInt(4), JInt(7)}
Sizes == (0 - 1)..MaxSize
Years == {MinWatchlistYear - 1, MinWatchlistYear}

\* the columns of the model: the first three of player_columns (lines 54-56)
\* and the first two of watchlist_columns (lines 64-65)
Columns ==
  [player |-> <<"player", "nba_team", "position">>,
   watchlist |-> <<"player", "availability">>]

Range(q) == {q[i] : i \in 1..Len(q)}

\* the order of a table with the hidden columns left out (lines 379-382)
VisibleColumns(order, visible) ==
  LET shown == SelectSeq(order, LAMBDA c : visible[c])
  IN  IF shown = <<>> /\ order # <<>> THEN <<order[1]>> ELSE shown

NoClick == [key |-> "none", column |-> "none", reverted |-> FALSE]

\* __init__ (lines 53-90): every column visible, in the order of the configs,
\* the first row of each listbox selected (lines 338-340)
ColumnsIdle ==
  /\ column_order = Columns
  /\ visibility_vars = [k \in DOMAIN Columns |-> [c \in Range(Columns[k]) |-> TRUE]]
  /\ config_visible = [k \in DOMAIN Columns |-> [c \in Range(Columns[k]) |-> TRUE]]
  /\ displaycolumns = Columns
  /\ curselection = [k \in DOMAIN Columns |-> 1]
  /\ last_click = NoClick

\* the player ids of the model
Ids == {1, 2}

\* self.league = None (line 49)
NoLeague == [loaded |-> FALSE, league_id |-> 0, year |-> 0]

\* no direct _get_today_metrics call was made
NoMetrics == [call |-> [called |-> FALSE]]

\* None where the code has an Optional[str]: an argument left out, a key
\* that cannot be composed, a player the cache does not hold
NoneStr == "<None>"

\* the emptied cache, _live_plus_minus_cache.clear() (lines 83, 474)
EmptyCache == [id \in Ids |-> NoneStr]

\* __init__ (lines 45-50, 83) without a preferences file (lines 689-695)
AppIdle ==
  /\ league = NoLeague
  /\ league_id_var = ""
  /\ year_var = ""
  /\ watchlist_ids = <<>>
  /\ saved_preferences = [league_id |-> "", year |-> "", watchlists |-> {}]
  /\ closed = FALSE
  /\ today = [id \in Ids |-> None]
  /\ cache = EmptyCache
  /\ live_calls = [id \in Ids |-> <<>>]
  /\ last_metrics = NoMetrics

\* League.transactions was not called
TransactionsIdle ==
  /\ TRANSACTION_TYPES = {"FREEAGENT", "WAIVER", "WAIVER_ERROR"}
  /\ tx_data = [has_key |-> TRUE, count |-> 0]
  /\ tx_pc = "idle"
  /\ tx_types = {}
  /\ tx_calls = <<>>
  /\ tx_error = "none"
  /\ tx_result = 0

(***************************************************************************)
(* League.team_watchlist as a state machine.  A call is cut at its two     *)
(* requests to the collaborator (self.espn_request.league_get).            *)
(***************************************************************************)
\* no get_live_plus_minus call
PlusMinusIdle ==
  /\ pm_pc = "idle"
  /\ player_name = ""
  /\ web = [scoreboard |-> [shape |-> "nokey", events |-> <<>>],
            box1 |-> [shape |-> "list", athletes |-> <<>>],
            box2 |-> [shape |-> "list", athletes |-> <<>>]]
  /\ requested_urls = <<>>
  /\ outcomes = <<>>
  /\ pending = <<>>
  /\ pm_value = None

\* no watchlist_players call: its state as the stub and the call start
WatchlistPlayersIdle ==
  /\ wp_pc = "idle"
  /\ stub_responses = <<>>
  /\ stub_calls = <<>>
  /\ wp_args = [limit |-> 0, offset |-> 0, given |-> FALSE, ids |-> <<>>]
  /\ season_ids = <<>>
  /\ attempt = 1
  /\ players = <<>>
  /\ returned = <<>>

NoPrev == [known |-> FALSE]

\* league_get has not raised
NoFault == [view |-> "none", exc |-> "none"]

\* the exceptions league_get may raise
Exceptions == {"ESPNAccessDenied", "ConnectionError"}

\* line 236: Exception('Cant use watchlist before 2019')
YearError == "Cant use watchlist before 2019"

\* the legacy view requested in place of the primary view
LegacyViewFirst == [view |-> "mWatchlist", headers |-> None]

\* params = {'view': 'player_wl'}; no headers
PrimaryRequest == [view |-> "player_wl", headers |-> None]

\* params = {'view': 'mWatchlist'}; the x-fantasy-filter header of lines 281-287
LegacyRequest(team, n) ==
  [view |-> "mWatchlist",
   headers |-> [filterTeamIds |-> <<team>>, limit |-> n]]

Init ==
  /\ AppIdle
  /\ ColumnsIdle
  /\ TransactionsIdle
  /\ year \in Years
  /\ responses \in ResponsePairs
  /\ pc = "idle"
  /\ team_id = None
  /\ size = 0
  /\ data = "none"
  /\ entries_with_team = <<>>
  /\ has_player_watchlist_key = FALSE
  /\ seen_player_ids = {}
  /\ selected_entries = <<>>
  /\ calls = <<>>
  /\ prev = NoPrev
  /\ fault = NoFault
  /\ error = "none"
  /\ WatchlistPlayersIdle
  /\ PlusMinusIdle

\* what a finished call leaves behind for a call with the same arguments
Left(team, n) ==
  IF pc = "done" /\ team = team_id /\ n = size
    THEN [known |-> TRUE, result |-> Entries(selected_entries), seen |-> seen_player_ids]
    ELSE NoPrev

\* the locals of a call that has not reached them yet
FreshLocals ==
  /\ data' = "none"
  /\ entries_with_team' = <<>>
  /\ has_player_watchlist_key' = FALSE
  /\ seen_player_ids' = {}
  /\ selected_entries' = <<>>

\* CallRaises with the year test after the primary request
CallRaisesAfterFetch(team, n) ==
  /\ pc \in {"idle", "done"}
  /\ year < MinWatchlistYear
  /\ pc' = "raised"
  /\ team_id' = team
  /\ size' = n
  /\ calls' = <<PrimaryRequest>>
  /\ prev' = Left(team, n)
  /\ fault' = NoFault
  /\ error' = YearError
  /\ FreshLocals
  /\ UNCHANGED <<year, tx_vars, col_vars, app_vars, responses, wp_vars, pm_vars>>

\* lines 232-236: a call on a league before 2019 raises
CallRaises(team, n) ==
  /\ pc \in {"idle", "done"}
  /\ year < MinWatchlistYear
  /\ pc' = "raised"
  /\ team_id' = team
  /\ size' = n
  /\ calls' = <<>>
  /\ prev' = Left(team, n)
  /\ fault' = NoFault
  /\ error' = YearError
  /\ FreshLocals
  /\ UNCHANGED <<year, tx_vars, col_vars, app_vars, responses, wp_vars, pm_vars>>

\* lines 232-239: the call passes the year test and requests the primary view
Call(team, n) ==
  /\ pc \in {"idle", "done"}
  /\ ~(year < MinWatchlistYear)
  /\ pc' = "primary"
  /\ team_id' = team
  /\ size' = n
  /\ calls' = <<PrimaryRequest>>
  /\ prev' = Left(team, n)
  /\ fault' = NoFault
  /\ error' = "none"
  /\ FreshLocals
  /\ UNCHANGED <<year, tx_vars, col_vars, app_vars, responses, wp_vars, pm_vars>>

\* the condition of line 278 with `or` for `and`
NeedsLegacyEither(entries, has_key) == entries = <<>> \/ ~has_key

\* line 278: the condition of the legacy fallback
NeedsLegacy(entries, has_key) == entries = <<>> /\ ~has_key

\* lines 297-344 on the final `data` and entries: the selection that is returned
Resolve(response, entries) ==
  SelectEntries(StraightforwardEntries(response, entries), team_id, size)

\* lines 239-287, and 297-344 when the legacy view is not needed: the primary
\* response arrives, the tree is walked, and either the legacy view is requested
\* or the selection is made and returned
PrimaryResponse ==
  /\ pc = "primary"
  /\ LET response == Payload(responses.player_wl)
         entries  == IF IsDict(response) /\ Truthy(response)
                       THEN CollectWatchlistEntries(response)
                       ELSE <<>>
         has_key  == IsDict(response) /\ HasKey(response, "playerWatchList")
     IN  /\ data' = "player_wl"
         /\ has_player_watchlist_key' = has_key
         /\ IF NeedsLegacy(entries, has_key)
              THEN /\ pc' = "legacy"
                   /\ calls' = Append(calls, LegacyRequest(team_id, size))
                   /\ entries_with_team' = entries
                   /\ UNCHANGED <<seen_player_ids, selected_entries>>
              ELSE LET resolved == Resolve(response, entries)
                   IN  /\ pc' = "done"
                       /\ calls' = calls
                       /\ entries_with_team' = StraightforwardEntries(response, entries)
                       /\ selected_entries' = resolved.selected
                       /\ seen_player_ids' = resolved.seen
  /\ UNCHANGED <<year, tx_vars, col_vars, app_vars, responses, team_id, size, prev, fault, error, wp_vars, pm_vars>>

\* lines 288-344: the legacy response arrives, its entries are taken, and the
\* selection is made and returned
LegacyResponse ==
  /\ pc = "legacy"
  /\ LET response == Payload(responses.mWatchlist)
         entries  == LegacyEntries(response, entries_with_team, team_id)
         resolved == Resolve(response, entries)
     IN  /\ data' = "mWatchlist"
         /\ entries_with_team' = StraightforwardEntries(response, entries)
         /\ selected_entries' = resolved.selected
         /\ seen_player_ids' = resolved.seen
  /\ pc' = "done"
  /\ UNCHANGED <<year, tx_vars, col_vars, app_vars, responses, team_id, size, has_player_watchlist_key, calls, prev,
                 fault, error, wp_vars, pm_vars>>

\* league_get raises e and a handler around it goes on as if the response were
\* empty: after the primary request the legacy view is requested, after the
\* legacy request the empty list is returned
RequestFailsHandled(e) ==
  /\ pc \in {"primary", "legacy"}
  /\ fault' = [view |-> calls[Len(calls)].view, exc |-> e]
  /\ error' = "none"
  /\ IF pc = "primary"
       THEN /\ pc' = "legacy"
            /\ calls' = Append(calls, LegacyRequest(team_id, size))
       ELSE /\ pc' = "done"
            /\ calls' = calls
  /\ UNCHANGED <<year, tx_vars, col_vars, app_vars, responses, team_id, size, data, entries_with_team,
                 has_player_watchlist_key, seen_player_ids, selected_entries, prev,
                 wp_vars, pm_vars>>

\* lines 239 and 288: league_get raises e; team_watchlist has no handler, so e
\* leaves the call from where the request was made
RequestFails(e) ==
  /\ pc \in {"primary", "legacy"}
  /\ fault' = [view |-> calls[Len(calls)].view, exc |-> e]
  /\ error' = e
  /\ pc' = "raised"
  /\ UNCHANGED <<year, tx_vars, col_vars, app_vars, responses, team_id, size, data, entries_with_team,
                 has_player_watchlist_key, seen_player_ids, selected_entries,
                 calls, prev, wp_vars, pm_vars>>

Next ==
  \/ \E team \in TeamIds, n \in Sizes : CallRaises(team, n)
  \/ \E team \in TeamIds, n \in Sizes : Call(team, n)
  \/ PrimaryResponse
  \/ LegacyResponse
  \/ \E e \in Exceptions : RequestFails(e)

Spec == Init /\ [][Next]_vars

\* the list team_watchlist returns
result == Entries(selected_entries)

(***************************************************************************)
(* Definitions shared by the properties.                                   *)
(***************************************************************************)
PrimaryPayload == Payload(responses.player_wl)
LegacyPayload == Payload(responses.mWatchlist)

\* what the tree walk finds in the primary response (lines 272-274)
WalkEntries ==
  IF IsDict(PrimaryPayload) /\ Truthy(PrimaryPayload)
    THEN CollectWatchlistEntries(PrimaryPayload)
    ELSE <<>>

Max(a, b) == IF a >= b THEN a ELSE b

LegacyFetched == \E i \in 1..Len(calls) : calls[i].view = "mWatchlist"

\* an entry's identifier as the specification words it: the playerId field if
\* the entry has one, otherwise the id of the nested player
ExplicitId(entry) ==
  IF HasKey(entry, "playerId") THEN Get(entry, "playerId")
  ELSE Get(Get(entry, "player"), "id")

\* some collected entry is attributed to the requested team
TeamHasEntry ==
  team_id # None /\ \E i \in 1..Len(entries_with_team) : entries_with_team[i].team = team_id

(***************************************************************************)
(* C1. The size bound: team_watchlist returns at most max(size, 0)         *)
(* entries, so that for size <= 0 the result is empty whatever the         *)
(* payload holds.  The code checks the bound only after appending an       *)
(* entry, and returns one entry for size <= 0.                             *)
(***************************************************************************)
C1_SizeBound == pc = "done" => Len(result) <= Max(size, 0)

(***************************************************************************)
(* C2. No player identifier occurs twice in the returned list.  As         *)
(* claimed, the identifier is the playerId field if present, else the      *)
(* nested player's id; the code takes `playerId or player.id`, so a falsy  *)
(* playerId (0) gives way to the nested id.  C2_NoRepeatedId states the    *)
(* claim with the identifier the code uses, C2_NoRepeatedExplicitId with   *)
(* the identifier as claimed.                                              *)
(***************************************************************************)
C2_NoRepeatedExplicitId ==
  pc = "done" =>
    \A i, j \in 1..Len(result) :
      ExplicitId(result[i]) = ExplicitId(result[j]) => i = j

\* the identifier the code uses: the playerId field if it is truthy (present,
\* not null, not 0), otherwise the id of the nested player
TruthyId(entry) ==
  IF HasKey(entry, "playerId") /\ Truthy(Get(entry, "playerId"))
    THEN Get(entry, "playerId")
    ELSE Get(Get(entry, "player"), "id")

C2_NoRepeatedId ==
  pc = "done" =>
    \A i, j \in 1..Len(result) :
      TruthyId(result[i]) = TruthyId(result[j]) => i = j

\* the same player was collected twice, size left room for both, and the call
\* returned one entry
C2_Witness ==
  /\ pc = "done"
  /\ size >= 2
  /\ Len(result) = 1
  /\ \E i, j \in 1..Len(entries_with_team) :
       /\ i # j
       /\ IsDict(PlayerPayload(entries_with_team[i].entry))
       /\ IsDict(PlayerPayload(entries_with_team[j].entry))
       /\ TruthyId(entries_with_team[i].entry) = TruthyId(entries_with_team[j].entry)

(***************************************************************************)
(* C3. When team_id is given and some collected entry is attributed to     *)
(* it, every returned entry is attributed to team_id.  The code's team     *)
(* test (line 309) lets entries of unknown team through, so the claim      *)
(* holds with "attributed to team_id or to no team".                       *)
(***************************************************************************)
C3_OnlyRequestedTeam ==
  (pc = "done" /\ TeamHasEntry) =>
    \A i \in 1..Len(selected_entries) : selected_entries[i].team = team_id

C3_RequestedOrUnknownTeam ==
  (pc = "done" /\ TeamHasEntry) =>
    \A i \in 1..Len(selected_entries) : selected_entries[i].team \in {team_id, None}

\* entries of the requested team and of another team were collected, and an
\* entry was returned
C3_Witness ==
  /\ pc = "done"
  /\ TeamHasEntry
  /\ \E i \in 1..Len(entries_with_team) : entries_with_team[i].team \notin {team_id, None}
  /\ selected_entries # <<>>

(***************************************************************************)
(* C4. When team_id is given and some collected entry is attributed to     *)
(* it, no collected entry of a different known team is returned.           *)
(***************************************************************************)
C4_NoOtherTeamEntry ==
  (pc = "done" /\ TeamHasEntry) =>
    \A i \in 1..Len(entries_with_team) :
      entries_with_team[i].team \notin {team_id, None} =>
        \A j \in 1..Len(selected_entries) : selected_entries[j] # entries_with_team[i]

\* watchlists of teams 7 and 4, a request for team 7 that returned an entry
C4_Witness ==
  /\ pc = "done"
  /\ team_id = JInt(7)
  /\ \E i \in 1..Len(entries_with_team) : entries_with_team[i].team = JInt(7)
  /\ \E i \in 1..Len(entries_with_team) : entries_with_team[i].team = JInt(4)
  /\ Len(selected_entries) >= 1
  /\ size >= 1

(***************************************************************************)
(* C5. When team_id is given and every collected entry is attributed to    *)
(* another known team, the call returns the first `size` well-formed       *)
(* entries, whatever their team, one per player identifier.  FirstDistinct *)
(* is that list as the claim words it: no entry for size <= 0.  The code   *)
(* returns one entry for size <= 0 (the bound of C1).                      *)
(***************************************************************************)
RECURSIVE FirstDistinct(_, _, _, _, _)
FirstDistinct(entries, i, n, taken, ids) ==
  IF i > Len(entries) \/ Len(taken) >= n THEN taken
  ELSE IF ~IsDict(PlayerPayload(entries[i].entry))
         \/ TruthyId(entries[i].entry) \in ids
    THEN FirstDistinct(entries, i + 1, n, taken, ids)
    ELSE FirstDistinct(entries, i + 1, n, Append(taken, entries[i].entry),
                       ids \cup {TruthyId(entries[i].entry)})

C5_AnyTeamFallback ==
  (/\ pc = "done"
   /\ team_id # None
   /\ \A i \in 1..Len(entries_with_team) : entries_with_team[i].team \notin {team_id, None})
    => result = FirstDistinct(entries_with_team, 1, size, <<>>, {})

(***************************************************************************)
(* C6. The legacy view (mWatchlist, filtered by team_id, limit = size) is  *)
(* requested if and only if the walk over the primary response found no    *)
(* entry and the primary response has no top-level playerWatchList key;    *)
(* the mappings of the legacy players list (else of watchlist.players)     *)
(* are then the entries, attributed to team_id, that the result is made    *)
(* of: every returned entry is one of them, and every well-formed one is   *)
(* returned when size leaves room for all.                                 *)
(***************************************************************************)
\* the players list of a legacy response, else its watchlist.players list
LegacyList(x) ==
  IF ~IsDict(x) THEN <<>>
  ELSE IF IsList(Get(x, "players")) THEN Get(x, "players").items
  ELSE IF IsDict(Get(x, "watchlist")) /\ IsList(Get(Get(x, "watchlist"), "players"))
    THEN Get(Get(x, "watchlist"), "players").items
  ELSE <<>>

C6_LegacyFallback ==
  pc \in {"legacy", "done"} =>
    /\ LegacyFetched <=>
         (/\ WalkEntries = <<>>
          /\ ~(IsDict(PrimaryPayload) /\ HasKey(PrimaryPayload, "playerWatchList")))
    /\ \A i \in 1..Len(calls) :
         calls[i].view = "mWatchlist" =>
           calls[i].headers = [filterTeamIds |-> <<team_id>>, limit |-> size]
    /\ (LegacyFetched /\ pc = "done") =>
         /\ entries_with_team =
              LET maps == SelectSeq(LegacyList(LegacyPayload), IsDict)
              IN  [i \in 1..Len(maps) |-> [team |-> team_id, entry |-> maps[i]]]
         /\ \A j \in 1..Len(selected_entries) :
              \E i \in 1..Len(entries_with_team) :
                selected_entries[j] = entries_with_team[i]
         /\ size >= Len(entries_with_team) =>
              \A i \in 1..Len(entries_with_team) :
                IsDict(PlayerPayload(entries_with_team[i].entry)) =>
                  \E j \in 1..Len(result) :
                    TruthyId(result[j]) = TruthyId(entries_with_team[i].entry)

\* the legacy view was fetched for a team and an entry of it was returned
C6_Witness ==
  /\ pc = "done"
  /\ LegacyFetched
  /\ team_id # None
  /\ result # <<>>

(***************************************************************************)
(* C7. The requests of a call form a fixed chain: the primary view         *)
(* (player_wl, no headers) first and once, the legacy view at most once    *)
(* and after it, nothing else; a call whose primary response yields an     *)
(* entry makes exactly one request.  (A call on a league before 2019       *)
(* raises before the chain starts, see C25.)                               *)
(***************************************************************************)
C7_FetchChain ==
  /\ Len(calls) <= 2
  /\ Len(calls) >= 1 => calls[1] = [view |-> "player_wl", headers |-> None]
  /\ Len(calls) = 2 => calls[2].view = "mWatchlist"
  /\ pc \in {"primary", "legacy", "done"} => Len(calls) >= 1
  /\ pc = "primary" => Len(calls) = 1
  /\ (pc = "done" /\ WalkEntries # <<>>) => Len(calls) = 1

\* a call that went through the whole chain
C7_Witness ==
  /\ pc = "done"
  /\ Len(calls) = 2
  /\ calls[2].view = "mWatchlist"

(***************************************************************************)
(* C8. When the entries of the watchlists wrap the player under            *)
(* playerPoolEntry.player, the walk collects one entry per wrapped player  *)
(* (the playerPoolEntry mapping), attributed to the teamId of its          *)
(* watchlist; the call makes the primary request only, and returns every   *)
(* wrapped player of the requested team when size leaves room.             *)
(***************************************************************************)
\* the watchlists of a playerWatchList response
WatchlistsOf(x) ==
  IF IsDict(x) /\ IsDict(Get(x, "playerWatchList"))
       /\ IsList(Get(Get(x, "playerWatchList"), "watchlists"))
    THEN Get(Get(x, "playerWatchList"), "watchlists").items
    ELSE <<>>

\* an entry that holds its player under playerPoolEntry only
Wrapped(e) ==
  /\ IsDict(e)
  /\ ~HasKey(e, "player")
  /\ ~HasKey(e, "teamId")
  /\ IsDict(Get(e, "playerPoolEntry"))
  /\ IsDict(Get(Get(e, "playerPoolEntry"), "player"))
  /\ ~HasKey(Get(e, "playerPoolEntry"), "teamId")

PoolShaped(x) ==
  /\ WatchlistsOf(x) # <<>>
  /\ \A w \in 1..Len(WatchlistsOf(x)) :
       /\ IsDict(WatchlistsOf(x)[w])
       /\ IsInt(Get(WatchlistsOf(x)[w], "teamId"))
       /\ IsList(Get(WatchlistsOf(x)[w], "entries"))
       /\ Get(WatchlistsOf(x)[w], "entries").items # <<>>
       /\ \A k \in 1..Len(Get(WatchlistsOf(x)[w], "entries").items) :
            Wrapped(Get(WatchlistsOf(x)[w], "entries").items[k])

\* the (team, playerPoolEntry) pairs of a pool-shaped response
WrappedPairs(x) ==
  {[team |-> Get(WatchlistsOf(x)[w], "teamId"),
    entry |-> Get(Get(WatchlistsOf(x)[w], "entries").items[k], "playerPoolEntry")] :
     <<w, k>> \in {wk \in (1..Len(WatchlistsOf(x))) \X (1..MaxEntries) :
                    wk[2] <= Len(Get(WatchlistsOf(x)[wk[1]], "entries").items)}}

RECURSIVE CountWrapped(_, _)
CountWrapped(x, w) ==
  IF w > Len(WatchlistsOf(x)) THEN 0
  ELSE Len(Get(WatchlistsOf(x)[w], "entries").items) + CountWrapped(x, w + 1)

C8_PoolEntries ==
  (pc = "done" /\ PoolShaped(PrimaryPayload)) =>
    /\ {entries_with_team[i] : i \in 1..Len(entries_with_team)}
         = WrappedPairs(PrimaryPayload)
    /\ Len(entries_with_team) = CountWrapped(PrimaryPayload, 1)
    /\ Len(calls) = 1
    /\ size >= Len(entries_with_team) =>
         \A i \in 1..Len(entries_with_team) :
           (team_id = None \/ entries_with_team[i].team = team_id) =>
             \E j \in 1..Len(result) :
               TruthyId(result[j]) = TruthyId(entries_with_team[i].entry)

\* two wrapped players of the requested team, both returned after one request
C8_Witness ==
  /\ pc = "done"
  /\ PoolShaped(PrimaryPayload)
  /\ team_id # None
  /\ Len(result) = 2
  /\ \A j \in 1..Len(selected_entries) : selected_entries[j].team = team_id
  /\ Len(calls) = 1

RECURSIVE HasWatchKey(_)
HasWatchKey(x) ==
  IF IsDict(x)
    THEN \E i \in 1..Len(x.kv) :
           ContainsWatch(KeyLower(x.kv[i].k)) \/ HasWatchKey(x.kv[i].v)
  ELSE IF IsList(x) THEN \E i \in 1..Len(x.items) : HasWatchKey(x.items[i])
  ELSE FALSE

NoStructure(x) ==
  IsDict(x) => (~HasWatchKey(x) /\ ~HasKey(x, "players") /\ ~HasKey(x, "watchlist"))

C10_NoMatchNoCrash ==
  (NoStructure(PrimaryPayload) /\ NoStructure(LegacyPayload)) =>
    /\ pc = "done" => result = <<>>
    /\ pc = "raised" => (year < MinWatchlistYear \/ Len(calls) >= 1)

\* unrelated JSON that holds players outside of any watchlist (a team roster),
\* answered by both views
C10_Witness ==
  /\ pc = "done"
  /\ NoStructure(PrimaryPayload)
  /\ NoStructure(LegacyPayload)
  /\ IsDict(PrimaryPayload)
  /\ HasKey(PrimaryPayload, "teams")
  /\ Len(calls) = 2
  /\ result = <<>>

(***************************************************************************)
(* C11. An entry that yields no player identifier (no playerId field, no   *)
(* id in its nested player mapping) is skipped: no such entry is returned, *)
(* and a call that meets one still returns.  The code gives such an entry  *)
(* the identifier None (line 316) and selects the first one it meets.      *)
(***************************************************************************)
\* the entry has a playerId field or its player mapping has an id
YieldsIdentifier(entry) ==
  HasKey(entry, "playerId")
    \/ (IsDict(Get(entry, "player")) /\ HasKey(Get(entry, "player"), "id"))

C11_NoIdentifierSkipped ==
  pc = "done" => \A j \in 1..Len(result) : YieldsIdentifier(result[j])

(***************************************************************************)
(* C12. Entries without a player mapping are skipped and do not count      *)
(* toward size: for size >= 1 the call returns exactly                     *)
(* min(size, number of distinct identifiers of the eligible well-formed   *)
(* entries) entries.  Well-formed is as the specification has it: the      *)
(* entry has a player mapping and yields an identifier.  Eligible are the  *)
(* entries of the requested team or of no team, and every entry when       *)
(* team_id is None or when none of those is well-formed.  The code counts  *)
(* an entry without identifier as a player (C11).                          *)
(***************************************************************************)
WellFormed(entry) == IsDict(PlayerPayload(entry)) /\ YieldsIdentifier(entry)

\* the positions of the well-formed entries the team filter lets through
WellFormedOfTeam ==
  {i \in 1..Len(entries_with_team) :
     /\ WellFormed(entries_with_team[i].entry)
     /\ (team_id = None \/ entries_with_team[i].team \in {team_id, None})}

Eligible ==
  IF WellFormedOfTeam = {} /\ team_id # None
    THEN {i \in 1..Len(entries_with_team) : WellFormed(entries_with_team[i].entry)}
    ELSE WellFormedOfTeam

Min(a, b) == IF a <= b THEN a ELSE b

C12_MalformedNotCounted ==
  (pc = "done" /\ size >= 1) =>
    Len(result) =
      Min(size, Cardinality({TruthyId(entries_with_team[i].entry) : i \in Eligible}))

(***************************************************************************)
(* C13. A failure of the fetch collaborator is not caught: when league_get *)
(* raises, the call ends with that same exception and returns nothing; if  *)
(* it was the primary request that failed, the legacy request is never     *)
(* made.                                                                   *)
(***************************************************************************)
C13_FailurePropagates ==
  fault # NoFault =>
    /\ pc = "raised"
    /\ error = fault.exc
    /\ result = <<>>
    /\ fault.view = "player_wl" => (Len(calls) = 1 /\ ~LegacyFetched)
    /\ fault.view = "mWatchlist" => Len(calls) = 2

\* the legacy request failed, after a primary response that led to it
C13_Witness ==
  /\ pc = "raised"
  /\ fault.view = "mWatchlist"
  /\ fault.exc = "ESPNAccessDenied"
  /\ error = "ESPNAccessDenied"
  /\ Len(calls) = 2

(***************************************************************************)
(* C18. The result preserves document order: for a primary response with   *)
(* a single entries list e1..en, all with a player mapping, of distinct    *)
(* players and eligible for the requested team, the call with              *)
(* 1 <= size <= n returns e1..e_size in that order.  The walk pops the     *)
(* frame pushed last (line 246), so the entries of a list are collected    *)
(* last to first.                                                          *)
(***************************************************************************)
\* the entries list of the only watchlist of the primary response
OnlyList ==
  IF Len(WatchlistsOf(PrimaryPayload)) = 1
       /\ IsDict(WatchlistsOf(PrimaryPayload)[1])
       /\ IsList(Get(WatchlistsOf(PrimaryPayload)[1], "entries"))
    THEN Get(WatchlistsOf(PrimaryPayload)[1], "entries").items
    ELSE <<>>

AllEligibleAndDistinct ==
  /\ OnlyList # <<>>
  /\ \A k \in 1..Len(OnlyList) :
       /\ IsDict(OnlyList[k])
       /\ IsDict(Get(OnlyList[k], "player"))
       /\ ~HasKey(OnlyList[k], "teamId")
  /\ \A k, l \in 1..Len(OnlyList) :
       TruthyId(OnlyList[k]) = TruthyId(OnlyList[l]) => k = l
  /\ \/ team_id = None
     \/ ~IsInt(Get(WatchlistsOf(PrimaryPayload)[1], "teamId"))
     \/ Get(WatchlistsOf(PrimaryPayload)[1], "teamId") = team_id

C18_DocumentOrder ==
  (pc = "done" /\ AllEligibleAndDistinct /\ size >= 1 /\ size <= Len(OnlyList)) =>
    result = SubSeq(OnlyList, 1, size)

(***************************************************************************)
(* C19. When the legacy view was fetched and its response holds neither a  *)
(* players list nor a watchlist.players list, the players list of the      *)
(* primary response, if it has one, gives the entries, with unknown team,  *)
(* and the result is selected from them.  The code has overwritten `data`  *)
(* with the legacy response (line 288) when it reads the straightforward   *)
(* keys (line 298), so the primary players list is never read.             *)
(***************************************************************************)
\* the mappings of the players list of the primary response, with no team
PrimaryPlayers ==
  IF IsDict(PrimaryPayload) /\ IsList(Get(PrimaryPayload, "players"))
    THEN LET maps == SelectSeq(Get(PrimaryPayload, "players").items, IsDict)
         IN  [i \in 1..Len(maps) |-> [team |-> None, entry |-> maps[i]]]
    ELSE <<>>

LegacyHasNoList ==
  ~(IsDict(LegacyPayload) /\ IsList(Get(LegacyPayload, "players")))
    /\ ~(/\ IsDict(LegacyPayload)
         /\ IsDict(Get(LegacyPayload, "watchlist"))
         /\ IsList(Get(Get(LegacyPayload, "watchlist"), "players")))

C19_PrimaryPlayersAfterLegacy ==
  (pc = "done" /\ LegacyFetched /\ LegacyHasNoList /\ size >= 1) =>
    /\ entries_with_team = PrimaryPlayers
    /\ result = FirstDistinct(PrimaryPlayers, 1, size, <<>>, {})

(***************************************************************************)
(* C20. The walk captures a mapping that holds a player mapping if and     *)
(* only if a key on the path from the root to it contains "watch" in any   *)
(* case and no mapping above it on the path was captured: the include      *)
(* flag, once set, stays set going deeper and through lists, and player    *)
(* mappings reachable only through keys without "watch" are not captured.  *)
(* CapturedBelow states the rule by recursion on the document; the code    *)
(* walks it with a stack.                                                  *)
(***************************************************************************)
RECURSIVE CapturedBelow(_, _)
\* the mappings captured at or below x, when flagged tells whether a key on
\* the path to x contains "watch"
CapturedBelow(x, flagged) ==
  IF IsDict(x)
    THEN IF flagged /\ IsDict(Get(x, "player")) THEN {x}
         ELSE UNION {CapturedBelow(x.kv[i].v,
                                   flagged \/ ContainsWatch(KeyLower(x.kv[i].k))) :
                       i \in 1..Len(x.kv)}
  ELSE IF IsList(x) THEN UNION {CapturedBelow(x.items[i], flagged) : i \in 1..Len(x.items)}
  ELSE {}

RECURSIVE PlayerMaps(_)
\* every mapping of a document that holds a player mapping
PlayerMaps(x) ==
  IF IsDict(x)
    THEN (IF IsDict(Get(x, "player")) THEN {x} ELSE {})
           \cup UNION {PlayerMaps(x.kv[i].v) : i \in 1..Len(x.kv)}
  ELSE IF IsList(x) THEN UNION {PlayerMaps(x.items[i]) : i \in 1..Len(x.items)}
  ELSE {}

\* the walk ran and was not replaced by the legacy or the straightforward keys
WalkKept == pc = "done" /\ ~LegacyFetched /\ WalkEntries # <<>>

C20_CaptureRule ==
  pc \in {"legacy", "done"} =>
    /\ WalkKept =>
         {entries_with_team[i].entry : i \in 1..Len(entries_with_team)}
           = CapturedBelow(PrimaryPayload, FALSE)
    /\ (IsDict(PrimaryPayload) /\ CapturedBelow(PrimaryPayload, FALSE) # {}) => WalkKept \/ pc = "legacy"
    /\ pc = "legacy" => (~IsDict(PrimaryPayload) \/ CapturedBelow(PrimaryPayload, FALSE) = {})
    /\ (IsDict(PrimaryPayload) /\ CapturedBelow(PrimaryPayload, FALSE) = {}
          /\ ~HasKey(PrimaryPayload, "playerWatchList")) => LegacyFetched

\* an entry was captured below a list, and the player mapping its own
\* playerPoolEntry holds was not
C20_Witness ==
  /\ WalkKept
  /\ \E e \in CapturedBelow(PrimaryPayload, FALSE) :
       /\ IsDict(Get(e, "playerPoolEntry"))
       /\ Get(e, "playerPoolEntry") \in PlayerMaps(PrimaryPayload)
       /\ Get(e, "playerPoolEntry") \notin CapturedBelow(PrimaryPayload, FALSE)
  /\ result # <<>>

(***************************************************************************)
(* C21. A captured mapping is a leaf of the walk: nothing below it is      *)
(* visited, so a mapping with a player that lies inside a collected entry  *)
(* (the playerPoolEntry of an entry that has a player of its own) is       *)
(* never collected as a second entry.                                      *)
(***************************************************************************)
Collected == {entries_with_team[i].entry : i \in 1..Len(entries_with_team)}

\* the mappings with a player strictly below a mapping
InsideOf(e) == UNION {PlayerMaps(e.kv[i].v) : i \in 1..Len(e.kv)}

C21_CapturedIsLeaf ==
  WalkKept =>
    /\ \A e \in Collected : InsideOf(e) \cap Collected = {}
    /\ \A j \in 1..Len(result) : InsideOf(result[j]) \cap Collected = {}
    /\ Cardinality(Collected) <= Cardinality(PlayerMaps(PrimaryPayload))
                                   - Cardinality(UNION {InsideOf(e) : e \in Collected})

\* two entries were returned, each holding a player mapping of another
\* player inside
C21_Witness ==
  /\ WalkKept
  /\ Len(result) = 2
  /\ \A j \in 1..2 : InsideOf(result[j]) # {}

(***************************************************************************)
(* C22. The team of a collected entry is the integer teamId of the nearest *)
(* mapping on its path from the root that has one, the entry itself        *)
(* included; it is unknown when no mapping on the path has one, and the    *)
(* teamId of one subtree is not seen in a sibling subtree.                 *)
(***************************************************************************)
RECURSIVE AttributedBelow(_, _, _)
\* the [team, entry] pairs of the captured mappings at or below x, where
\* nearest is the nearest integer teamId above x
AttributedBelow(x, flagged, nearest) ==
  IF IsDict(x)
    THEN LET own == IF IsInt(Get(x, "teamId")) THEN Get(x, "teamId") ELSE nearest
         IN  IF flagged /\ IsDict(Get(x, "player"))
               THEN {[team |-> own, entry |-> x]}
               ELSE UNION {AttributedBelow(x.kv[i].v,
                             flagged \/ ContainsWatch(KeyLower(x.kv[i].k)), own) :
                             i \in 1..Len(x.kv)}
  ELSE IF IsList(x)
    THEN UNION {AttributedBelow(x.items[i], flagged, nearest) : i \in 1..Len(x.items)}
  ELSE {}

C22_NearestTeam ==
  WalkKept =>
    {entries_with_team[i] : i \in 1..Len(entries_with_team)}
      = AttributedBelow(PrimaryPayload, FALSE, None)

\* an entry with a teamId of its own inside the watchlist of another team,
\* or an entry without team beside the watchlist of a team
C22_Witness ==
  /\ WalkKept
  /\ \/ \E i \in 1..Len(entries_with_team) :
          /\ HasKey(entries_with_team[i].entry, "teamId")
          /\ entries_with_team[i].team = Get(entries_with_team[i].entry, "teamId")
          /\ entries_with_team[i].team # Get(WatchlistsOf(PrimaryPayload)[1], "teamId")
          /\ IsInt(Get(WatchlistsOf(PrimaryPayload)[1], "teamId"))
     \/ /\ Len(WatchlistsOf(PrimaryPayload)) = 2
        /\ IsInt(Get(WatchlistsOf(PrimaryPayload)[1], "teamId"))
        /\ \E i \in 1..Len(entries_with_team) : entries_with_team[i].team = None

(***************************************************************************)
(* C25. team_watchlist on a league of a year before 2019 raises before any *)
(* request: the collaborator has recorded no call and nothing is returned. *)
(***************************************************************************)
C25_EarlyYearRaises ==
  year < MinWatchlistYear =>
    /\ pc \in {"idle", "raised"}
    /\ calls = <<>>
    /\ result = <<>>
    /\ pc = "raised" => error = YearError /\ fault = NoFault

C25_Witness == pc = "raised" /\ year < MinWatchlistYear /\ error = YearError

(***************************************************************************)
(* League.watchlist_players(limit, offset, season_ids=None): the season    *)
(* probing of the account-level watchlist.  The collaborator is the        *)
(* WatchlistRequestStub of tests/basketball/unit/test_watchlist.py, which  *)
(* answers with its queued responses in order, whatever the season asked.  *)
(***************************************************************************)
\* the longest queue of responses a stub is built with
MaxResponses == 3

E555 == Entry(JInt(555), JInt(555))
E42 == Entry(JInt(42), JInt(42))

\* the pages a stub is built from: the empty page and pages with entries
PageChoices == {<<>>, <<E555>>, <<E42, E555>>}

\* the league years, and the arguments of a watchlist_players call
WatchlistYears == {2024, 2029}
Limits == {3, 5}
Offsets == {0, 15}
SeasonIdArgs ==
  {[given |-> FALSE, ids |-> <<>>]}
    \cup {[given |-> TRUE, ids |-> q] :
            q \in {<<2030>>, <<2025, 2024>>, <<2024, 2025, 2030>>}}

\* the default candidates: the league's year, then the year after
DefaultSeasonIds(y) == <<y, y + 1>>

\* the league year probed first even when the caller gave season_ids
CandidatesYearFirst(args, y) ==
  IF args.given THEN <<y>> \o args.ids ELSE DefaultSeasonIds(y)

\* the caller's season_ids when given, otherwise the default
Candidates(args, y) == IF args.given THEN args.ids ELSE DefaultSeasonIds(y)

\* WatchlistRequestStub.get_watchlist_players: the answer and what is left
StubPage(queue) == IF queue = <<>> THEN <<>> ELSE Head(queue)
StubRest(queue) == IF queue = <<>> THEN <<>> ELSE Tail(queue)

\* self.calls.append((season_id, limit, offset))
StubCall(season_id, limit, offset) == <<season_id, limit, offset>>

\* the probing goes on whatever the page holds
StopsNever(page) == FALSE

\* the probing stops at a page that is not empty
Stops(page) == page # <<>>

\* no team_watchlist call: its state as a league is constructed
TeamWatchlistIdle ==
  /\ responses = [player_wl |-> Desc("empty", 0, <<>>), mWatchlist |-> Desc("empty", 0, <<>>)]
  /\ pc = "idle"
  /\ team_id = None
  /\ size = 0
  /\ data = "none"
  /\ entries_with_team = <<>>
  /\ has_player_watchlist_key = FALSE
  /\ seen_player_ids = {}
  /\ selected_entries = <<>>
  /\ calls = <<>>
  /\ prev = NoPrev
  /\ fault = NoFault
  /\ error = "none"

WatchlistPlayersInit ==
  /\ AppIdle
  /\ ColumnsIdle
  /\ TransactionsIdle
  /\ year \in WatchlistYears
  /\ TeamWatchlistIdle
  /\ PlusMinusIdle
  /\ wp_pc = "idle"
  /\ stub_responses \in SeqsUpTo(PageChoices, MaxResponses)
  /\ stub_calls = <<>>
  /\ wp_args = [limit |-> 0, offset |-> 0, given |-> FALSE, ids |-> <<>>]
  /\ season_ids = <<>>
  /\ attempt = 1
  /\ players = <<>>
  /\ returned = <<>>

\* the call starts: the candidate seasons are settled
WatchlistPlayersCall(limit, offset, sids) ==
  /\ wp_pc = "idle"
  /\ wp_pc' = "probing"
  /\ wp_args' = [limit |-> limit, offset |-> offset, given |-> sids.given, ids |-> sids.ids]
  /\ season_ids' = Candidates(sids, year)
  /\ attempt' = 1
  /\ players' = <<>>
  /\ UNCHANGED <<year, tx_vars, col_vars, app_vars, tw_vars, pm_vars, stub_responses, stub_calls, returned>>

\* one probe: the page of the next candidate season is fetched; a page that is
\* not empty is returned, an empty one moves the call to the next season
Probe ==
  /\ wp_pc = "probing"
  /\ attempt <= Len(season_ids)
  /\ LET page == StubPage(stub_responses)
     IN  /\ stub_calls' =
               Append(stub_calls, StubCall(season_ids[attempt], wp_args.limit, wp_args.offset))
         /\ stub_responses' = StubRest(stub_responses)
         /\ returned' = Append(returned, page)
         /\ IF Stops(page)
              THEN /\ wp_pc' = "done"
                   /\ players' = page
                   /\ attempt' = attempt
              ELSE /\ wp_pc' = "probing"
                   /\ players' = players
                   /\ attempt' = attempt + 1
  /\ UNCHANGED <<year, tx_vars, col_vars, app_vars, tw_vars, pm_vars, wp_args, season_ids>>

\* every candidate season was probed and none had entries: the empty list
ReturnEmpty ==
  /\ wp_pc = "probing"
  /\ attempt > Len(season_ids)
  /\ wp_pc' = "done"
  /\ players' = <<>>
  /\ UNCHANGED <<year, tx_vars, col_vars, app_vars, tw_vars, pm_vars, stub_responses, stub_calls, wp_args,
                 season_ids, attempt, returned>>

WatchlistPlayersNext ==
  \/ \E limit \in Limits, offset \in Offsets, sids \in SeasonIdArgs :
       WatchlistPlayersCall(limit, offset, sids)
  \/ Probe
  \/ ReturnEmpty

WatchlistPlayersSpec == WatchlistPlayersInit /\ [][WatchlistPlayersNext]_vars

\* the candidate seasons as the caller's arguments and the league year give them
Expected == IF wp_args.given THEN wp_args.ids ELSE <<year, year + 1>>

(***************************************************************************)
(* C14. watchlist_players probes the candidate seasons in order, each with *)
(* the caller's limit and offset; it stops at the first page that is not   *)
(* empty and returns that page without a further fetch; when every page is *)
(* empty it has fetched each candidate season once and returns the empty   *)
(* list.                                                                   *)
(***************************************************************************)
C14_SeasonProbing ==
  wp_pc # "idle" =>
    /\ Len(stub_calls) <= Len(Expected)
    /\ \A i \in 1..Len(stub_calls) :
         stub_calls[i] = <<Expected[i], wp_args.limit, wp_args.offset>>
    /\ wp_pc = "probing" => \A i \in 1..Len(returned) : returned[i] = <<>>
    /\ (wp_pc = "done" /\ players # <<>>) =>
         /\ Len(stub_calls) >= 1
         /\ players = returned[Len(stub_calls)]
         /\ \A i \in 1..(Len(stub_calls) - 1) : returned[i] = <<>>
    /\ (wp_pc = "done" /\ players = <<>>) =>
         /\ Len(stub_calls) = Len(Expected)
         /\ \A i \in 1..Len(returned) : returned[i] = <<>>

\* the second season had entries; they were returned and the third candidate
\* season was not asked for, though the stub had a page left
C14_Witness ==
  /\ wp_pc = "done"
  /\ Len(Expected) = 3
  /\ Len(stub_calls) = 2
  /\ returned[1] = <<>>
  /\ players = returned[2]
  /\ players # <<>>
  /\ stub_responses # <<>>

(***************************************************************************)
(* C15. The seasons queried are a prefix of the candidate sequence: the    *)
(* caller's season_ids when given (the league year is then probed only if  *)
(* the caller listed it), otherwise the league year followed by year + 1;  *)
(* year + 1 is queried only after the page of year came back empty.        *)
(***************************************************************************)
Seasons == [i \in 1..Len(stub_calls) |-> stub_calls[i][1]]

C15_CandidatePrefix ==
  wp_pc # "idle" =>
    /\ Len(Seasons) <= Len(Expected)
    /\ Seasons = SubSeq(Expected, 1, Len(Seasons))
    /\ wp_args.given =>
         \A i \in 1..Len(Seasons) : \E j \in 1..Len(wp_args.ids) : Seasons[i] = wp_args.ids[j]
    /\ ~wp_args.given =>
         /\ Len(Seasons) <= 2
         /\ Len(Seasons) >= 1 => Seasons[1] = year
         /\ Len(Seasons) = 2 => (Seasons[2] = year + 1 /\ returned[1] = <<>>)

\* no season_ids given, the page of the league year was empty and the page of
\* the following year was returned
C15_Witness ==
  /\ wp_pc = "done"
  /\ ~wp_args.given
  /\ Seasons = <<year, year + 1>>
  /\ players # <<>>

(***************************************************************************)
(* espn_api/utils/nba_plus_minus.py: get_live_plus_minus.  Python strings  *)
(* are sequences of characters here, so that casefold, strip, replace,     *)
(* split, the substring tests and float() are computed on the text.        *)
(***************************************************************************)
IsStr(x) == x.t = "str"

\* the characters of the strings that occur in the modelled payloads
Chars(s) ==
  CASE s = "" -> <<>>
    [] s = "plus" -> <<"p", "l", "u", "s">>
    [] s = "pm" -> <<"p", "m">>
    [] s = "+/" -> <<"+", "/">>
    [] s = "plusminus" -> <<"p", "l", "u", "s", "m", "i", "n", "u", "s">>
    [] s = "+/-" -> <<"+", "/", "-">>
    [] s = "+" -> <<"+">>
    [] s = " +" -> <<" ", "+">>
    [] s = "plusMinus" -> <<"p", "l", "u", "s", "M", "i", "n", "u", "s">>
    [] s = "points" -> <<"p", "o", "i", "n", "t", "s">>
    [] s = "athlete" -> <<"a", "t", "h", "l", "e", "t", "e">>
    [] s = "stats" -> <<"s", "t", "a", "t", "s">>
    [] s = "displayName" -> <<"d", "i", "s", "p", "l", "a", "y", "N", "a", "m", "e">>
    [] s = "fullName" -> <<"f", "u", "l", "l", "N", "a", "m", "e">>
    [] s = "+/-: -3" -> <<"+", "/", "-", ":", " ", "-", "3">>
    [] s = "+5" -> <<"+", "5">>
    [] s = "20" -> <<"2", "0">>
    [] s = "DNP" -> <<"D", "N", "P">>
    [] s = "plus 4 pts" -> <<"p", "l", "u", "s", " ", "4", " ", "p", "t", "s">>
    [] s = " 7 " -> <<" ", "7", " ">>
    [] s = "Sample Player" -> <<"S", "a", "m", "p", "l", "e", " ", "P", "l", "a", "y", "e", "r">>
    [] s = "SAMPLE PLAYER" -> <<"S", "A", "M", "P", "L", "E", " ", "P", "L", "A", "Y", "E", "R">>
    [] s = "sample player" -> <<"s", "a", "m", "p", "l", "e", " ", "p", "l", "a", "y", "e", "r">>
    [] s = "Other Player" -> <<"O", "t", "h", "e", "r", " ", "P", "l", "a", "y", "e", "r">>

\* one character of str.casefold(), on the letters of the modelled strings
Lower(c) ==
  CASE c = "A" -> "a"
    [] c = "B" -> "b"
    [] c = "C" -> "c"
    [] c = "D" -> "d"
    [] c = "E" -> "e"
    [] c = "F" -> "f"
    [] c = "G" -> "g"
    [] c = "H" -> "h"
    [] c = "I" -> "i"
    [] c = "J" -> "j"
    [] c = "K" -> "k"
    [] c = "L" -> "l"
    [] c = "M" -> "m"
    [] c = "N" -> "n"
    [] c = "O" -> "o"
    [] c = "P" -> "p"
    [] c = "Q" -> "q"
    [] c = "R" -> "r"
    [] c = "S" -> "s"
    [] c = "T" -> "t"
    [] c = "U" -> "u"
    [] c = "V" -> "v"
    [] c = "W" -> "w"
    [] c = "X" -> "x"
    [] c = "Y" -> "y"
    [] c = "Z" -> "z"
    [] OTHER -> c

\* str.casefold()
Casefold(q) == [i \in 1..Len(q) |-> Lower(q[i])]

RECURSIVE LStrip(_)
LStrip(q) == IF q # <<>> /\ Head(q) = " " THEN LStrip(Tail(q)) ELSE q

RECURSIVE RStrip(_)
RStrip(q) ==
  IF q # <<>> /\ q[Len(q)] = " " THEN RStrip(SubSeq(q, 1, Len(q) - 1)) ELSE q

\* str.strip()
Strip(q) == RStrip(LStrip(q))

\* str.startswith(prefix)
StartsWith(q, prefix) ==
  Len(q) >= Len(prefix) /\ SubSeq(q, 1, Len(prefix)) = prefix

\* part in q
Contains(q, part) ==
  \E i \in 0..(Len(q) - Len(part)) : SubSeq(q, i + 1, i + Len(part)) = part

RECURSIVE Replace(_, _, _)
\* str.replace(c, by) for a single character c
Replace(q, c, by) ==
  IF q = <<>> THEN <<>>
  ELSE (IF Head(q) = c THEN by ELSE <<Head(q)>>) \o Replace(Tail(q), c, by)

RECURSIVE SplitFrom(_, _, _)
\* str.split(): the maximal runs without whitespace, in order
SplitFrom(q, word, tokens) ==
  IF q = <<>> THEN (IF word = <<>> THEN tokens ELSE Append(tokens, word))
  ELSE IF Head(q) = " "
    THEN SplitFrom(Tail(q), <<>>, IF word = <<>> THEN tokens ELSE Append(tokens, word))
    ELSE SplitFrom(Tail(q), Append(word, Head(q)), tokens)

Split(q) == SplitFrom(q, <<>>, <<>>)

IsDigit(c) == c \in {"0", "1", "2", "3", "4", "5", "6", "7", "8", "9"}

DigitValue(c) ==
  CASE c = "0" -> 0
    [] c = "1" -> 1
    [] c = "2" -> 2
    [] c = "3" -> 3
    [] c = "4" -> 4
    [] c = "5" -> 5
    [] c = "6" -> 6
    [] c = "7" -> 7
    [] c = "8" -> 8
    [] c = "9" -> 9

RECURSIVE DigitsValue(_, _)
DigitsValue(q, acc) ==
  IF q = <<>> THEN acc ELSE DigitsValue(Tail(q), 10 * acc + DigitValue(Head(q)))

\* float(text) on whole numbers with an optional sign; None stands for the
\* ValueError of any other text
FloatOf(q) ==
  LET text   == Strip(q)
      signed == text # <<>> /\ Head(text) \in {"-", "+"}
      digits == IF signed THEN Tail(text) ELSE text
  IN  IF digits # <<>> /\ \A i \in 1..Len(digits) : IsDigit(digits[i])
        THEN JInt(IF signed /\ Head(text) = "-"
                    THEN 0 - DigitsValue(digits, 0)
                    ELSE DigitsValue(digits, 0))
        ELSE None

\* _coerce_float on a string: float(value.replace("+", "").strip())
CoerceText(q) == FloatOf(Strip(Replace(q, "+", <<>>)))

\* _coerce_float
CoerceFloat(value) ==
  IF IsInt(value) THEN value
  ELSE IF IsStr(value) THEN CoerceText(Chars(value.s))
  ELSE None

\* _is_plus_minus_key
IsPlusMinusKey(key) ==
  LET normalized == Casefold(Chars(key))
  IN  \E token \in {"plus", "pm", "+/", "plusminus"} : Contains(normalized, Chars(token))

RECURSIVE LastParsed(_, _)
\* for token in reversed(tokens): the first token that _coerce_float parses
LastParsed(tokens, i) ==
  IF i = 0 THEN None
  ELSE IF CoerceText(tokens[i]) # None THEN CoerceText(tokens[i])
  ELSE LastParsed(tokens, i - 1)

\* _parse_plus_minus_string
ParsePlusMinusString(value) ==
  LET stripped == Strip(Chars(value))
      lowered  == Casefold(stripped)
      tokens   == Split(Replace(stripped, "+", Chars(" +")))
  IN  IF stripped = <<>> THEN None
      ELSE IF (StartsWith(lowered, Chars("+/-")) \/ Contains(lowered, Chars("plus")))
              /\ LastParsed(tokens, Len(tokens)) # None
        THEN LastParsed(tokens, Len(tokens))
      ELSE CoerceText(stripped)

RECURSIVE SearchPlusMinus(_)
RECURSIVE SearchItems(_, _)
RECURSIVE SearchList(_, _)

\* _search_plus_minus, the loop over stats.items() from position i on
SearchItems(kv, i) ==
  IF i > Len(kv) THEN None
  ELSE IF IsPlusMinusKey(kv[i].k) /\ CoerceFloat(kv[i].v) # None
    THEN CoerceFloat(kv[i].v)
  ELSE IF SearchPlusMinus(kv[i].v) # None THEN SearchPlusMinus(kv[i].v)
  ELSE SearchItems(kv, i + 1)

\* _search_plus_minus, the loop over a list from position i on
SearchList(items, i) ==
  IF i > Len(items) THEN None
  ELSE IF SearchPlusMinus(items[i]) # None THEN SearchPlusMinus(items[i])
  ELSE SearchList(items, i + 1)

\* _search_plus_minus
SearchPlusMinus(stats) ==
  IF stats = None THEN None
  ELSE IF IsInt(stats) THEN stats
  ELSE IF IsStr(stats) THEN ParsePlusMinusString(stats.s)
  ELSE IF IsDict(stats) THEN SearchItems(stats.kv, 1)
  ELSE IF IsList(stats) THEN SearchList(stats.items, 1)
  ELSE None

\* item.values()
Values(item) == [i \in 1..Len(item.kv) |-> item.kv[i].v]

\* whether a mapping is a record of the athlete looked for
IsTargetRecord(item, target) ==
  /\ IsDict(Get(item, "athlete"))
  /\ LET name == PyOr(Get(Get(item, "athlete"), "displayName"),
                      Get(Get(item, "athlete"), "fullName"))
     IN  IsStr(name) /\ Casefold(Chars(name.s)) = target

RECURSIVE SearchQueue(_, _)
\* _extract_plus_minus, the while loop: queue.popleft() takes the first item.
\* A parsed JSON document is a tree, so the visited set never skips a mapping
\* or a list
SearchQueue(queue, target) ==
  IF queue = <<>> THEN None
  ELSE
    LET item == Head(queue)
    IN  IF IsDict(item)
          THEN IF IsTargetRecord(item, target)
                    /\ SearchPlusMinus(Get(item, "stats")) # None
                 THEN SearchPlusMinus(Get(item, "stats"))
                 ELSE SearchQueue(Tail(queue) \o Values(item), target)
        ELSE IF IsList(item) THEN SearchQueue(Tail(queue) \o item.items, target)
        ELSE SearchQueue(Tail(queue), target)

\* _extract_plus_minus
ExtractPlusMinus(boxscore, name) ==
  IF ~IsDict(boxscore) THEN None
  ELSE SearchQueue(<<boxscore>>, Casefold(Chars(name)))

\* _extract_boxscore_ref
ExtractBoxscoreRef(competition) ==
  IF ~IsDict(competition) THEN None
  ELSE IF IsDict(Get(competition, "boxscore"))
          /\ IsStr(Get(Get(competition, "boxscore"), "$ref"))
    THEN Get(Get(competition, "boxscore"), "$ref")
  ELSE None

\* d.get(key, []) of a mapping, [] of anything else (lines 52 and 54)
ListUnder(d, key) ==
  IF IsDict(d) /\ HasKey(d, key) THEN Get(d, key).items ELSE <<>>

RECURSIVE Competitions(_, _)
\* the competitions the two for loops run over, in order
Competitions(events, i) ==
  IF i > Len(events) THEN <<>>
  ELSE ListUnder(events[i], "competitions") \o Competitions(events, i + 1)

(***************************************************************************)
(* The payloads of the scoreboard and of the box scores.  They follow      *)
(* build_scoreboard and build_boxscore of tests/utils/test_nba_plus_minus  *)
(* and the cases the code tells apart.                                     *)
(***************************************************************************)
\* the longest list of athlete records in a box score
MaxAthletes == 2

SCOREBOARD_URL == "https://site.api.espn.com/apis/site/v2/sports/basketball/nba/scoreboard"
Box1Url == "http://example.com/boxscore/1"
Box2Url == "http://example.com/boxscore/2"

\* the stats of an athlete record, by name; None: the record has no stats
Stats(kind) ==
  CASE kind = "pm5"       -> JDict(<<KV("plusMinus", JInt(5))>>)
    [] kind = "pm9"       -> JDict(<<KV("plusMinus", JInt(9))>>)
    [] kind = "pmText"    -> JDict(<<KV("plusMinus", JStr("+/-: -3"))>>)
    [] kind = "text"      -> JStr("+/-: -3")
    [] kind = "points_pm" -> JDict(<<KV("points", JInt(20)), KV("plusMinus", JInt(5))>>)
    [] kind = "pm_points" -> JDict(<<KV("plusMinus", JInt(5)), KV("points", JInt(20))>>)
    [] kind = "points"    -> JDict(<<KV("points", JInt(20))>>)
    [] kind = "dnp"       -> JDict(<<KV("plusMinus", JStr("DNP"))>>)
    [] kind = "none"      -> None

\* {"athlete": {key: name}, "stats": stats}
AthleteRecord(a) ==
  JDict(<<KV("athlete", JDict(<<KV(a.key, JStr(a.name))>>))>> \o Field("stats", Stats(a.stats)))

Athlete(key, name, stats) == [key |-> key, name |-> name, stats |-> stats]

\* the athlete records box scores are built from
Athletes ==
  {Athlete("displayName", "Sample Player", "pm5"),
   Athlete("fullName", "SAMPLE PLAYER", "pmText"),
   Athlete("displayName", "Sample Player", "text"),
   Athlete("displayName", "Sample Player", "points_pm"),
   Athlete("displayName", "Sample Player", "pm_points"),
   Athlete("displayName", "Sample Player", "dnp"),
   Athlete("displayName", "Sample Player", "none"),
   Athlete("displayName", "Other Player", "pm9"),
   Athlete("displayName", "Other Player", "points")}

\* build_boxscore, with any number of athlete records; "list": not a mapping
BoxPayload(b) ==
  IF b.shape = "list" THEN JList(MapSeq(AthleteRecord, b.athletes))
  ELSE JDict(<<KV("teams", JList(<<JDict(<<KV("statistics", JList(<<JDict(<<
         KV("athletes", JList(MapSeq(AthleteRecord, b.athletes)))>>)>>))>>)>>))>>)

\* a competition of the scoreboard, by name
Competition(name) ==
  CASE name = "box1"     -> JDict(<<KV("boxscore", JDict(<<KV("$ref", JStr(Box1Url))>>))>>)
    [] name = "box2"     -> JDict(<<KV("boxscore", JDict(<<KV("$ref", JStr(Box2Url))>>))>>)
    [] name = "noref"    -> JDict(<<KV("status", JStr("pre"))>>)
    [] name = "intref"   -> JDict(<<KV("boxscore", JDict(<<KV("$ref", JInt(5))>>))>>)
    [] name = "emptyref" -> JDict(<<KV("boxscore", JDict(<<KV("$ref", JStr(""))>>))>>)
    [] name = "notdict"  -> JInt(5)

\* an event: {"competitions": [...]}, or a value that is not a mapping
Event(e) ==
  IF e = <<"notdict">> THEN JStr("event")
  ELSE JDict(<<KV("competitions", JList(MapSeq(Competition, e)))>>)

\* build_scoreboard, with any events; "nokey": {}, "list": not a mapping
ScoreboardPayload(b) ==
  CASE b.shape = "events" -> JDict(<<KV("events", JList(MapSeq(Event, b.events)))>>)
    [] b.shape = "nokey"  -> JDict(<<>>)
    [] b.shape = "list"   -> JList(MapSeq(Event, b.events))

Scoreboards ==
  {[shape |-> "events", events |-> es] :
     es \in {<<>>, <<<<"box1">>>>, <<<<"box1", "box2">>>>, <<<<"box2">>, <<"box1">>>>,
             <<<<"noref", "box2", "box1">>>>,
             <<<<"emptyref", "intref", "notdict", "box1">>>>,
             <<<<"notdict">>, <<>>, <<"box1">>, <<"box2">>>>}}
    \cup {[shape |-> "nokey", events |-> <<>>], [shape |-> "list", events |-> <<<<"box1">>>>]}

Boxes1 == {[shape |-> "teams", athletes |-> as] : as \in SeqsUpTo(Athletes, MaxAthletes)}

Boxes2 ==
  {[shape |-> "teams", athletes |-> <<>>],
   [shape |-> "teams", athletes |-> <<Athlete("displayName", "Sample Player", "pm9")>>],
   [shape |-> "list", athletes |-> <<Athlete("displayName", "Sample Player", "pm5")>>]}

PlayerNames == {"", "Sample Player", "sample player"}

\* what makes a request fail: http.get raises requests.RequestException,
\* raise_for_status raises requests.HTTPError (a RequestException), or
\* response.json() raises ValueError
Errors == {"RequestException", "HTTPError", "ValueError"}

\* the JSON document a box score URL holds
BoxAt(url) == IF url = Box1Url THEN BoxPayload(web.box1) ELSE BoxPayload(web.box2)

(***************************************************************************)
(* get_live_plus_minus as a state machine, cut at its HTTP requests.       *)
(***************************************************************************)
PlusMinusInit ==
  /\ AppIdle
  /\ ColumnsIdle
  /\ TransactionsIdle
  /\ year = MinWatchlistYear
  /\ TeamWatchlistIdle
  /\ WatchlistPlayersIdle
  /\ pm_pc = "idle"
  /\ player_name = ""
  /\ web \in [scoreboard : Scoreboards, box1 : Boxes1, box2 : Boxes2]
  /\ requested_urls = <<>>
  /\ outcomes = <<>>
  /\ pending = <<>>
  /\ pm_value = None

RECURSIVE SkipNoRef(_)
\* lines 56-58: competitions without a box score reference are passed over
SkipNoRef(competitions) ==
  IF competitions = <<>> THEN <<>>
  ELSE IF Truthy(ExtractBoxscoreRef(Head(competitions))) THEN competitions
  ELSE SkipNoRef(Tail(competitions))

\* the loops go on over the competitions left: the box score of the next one
\* that has a reference is requested; with none left, None is returned
GoOn(competitions) ==
  LET rest == SkipNoRef(competitions)
  IN  /\ pending' = rest
      /\ pm_value' = None
      /\ IF rest = <<>>
           THEN /\ pm_pc' = "done"
                /\ requested_urls' = requested_urls
           ELSE /\ pm_pc' = "boxscore"
                /\ requested_urls' =
                     Append(requested_urls, ExtractBoxscoreRef(Head(rest)).s)

\* a failed box score request ends the call with None
BoxscoreFailsReturns(err) ==
  /\ pm_pc = "boxscore"
  /\ outcomes' = Append(outcomes, err)
  /\ pm_pc' = "done"
  /\ pm_value' = None
  /\ UNCHANGED <<year, tx_vars, col_vars, app_vars, tw_vars, wp_vars, player_name, web, requested_urls, pending>>

\* lines 39-46: an empty name returns None at once; otherwise the scoreboard
\* is requested
GetLivePlusMinus(name) ==
  /\ pm_pc = "idle"
  /\ player_name' = name
  /\ IF name = ""
       THEN /\ pm_pc' = "done"
            /\ requested_urls' = <<>>
       ELSE /\ pm_pc' = "scoreboard"
            /\ requested_urls' = <<SCOREBOARD_URL>>
  /\ pm_value' = None
  /\ UNCHANGED <<year, tx_vars, col_vars, app_vars, tw_vars, wp_vars, web, outcomes, pending>>

\* lines 46-60: the scoreboard arrives and its competitions are gone through
ScoreboardArrives ==
  /\ pm_pc = "scoreboard"
  /\ outcomes' = Append(outcomes, "ok")
  /\ GoOn(Competitions(ListUnder(ScoreboardPayload(web.scoreboard), "events"), 1))
  /\ UNCHANGED <<year, tx_vars, col_vars, app_vars, tw_vars, wp_vars, player_name, web>>

\* lines 45-50: the scoreboard request fails; None is returned
ScoreboardFails(err) ==
  /\ pm_pc = "scoreboard"
  /\ outcomes' = Append(outcomes, err)
  /\ pm_pc' = "done"
  /\ pm_value' = None
  /\ UNCHANGED <<year, tx_vars, col_vars, app_vars, tw_vars, wp_vars, player_name, web, requested_urls, pending>>

\* lines 60-68: a box score arrives; its value is returned if it has one,
\* otherwise the loops go on
BoxscoreArrives ==
  /\ pm_pc = "boxscore"
  /\ outcomes' = Append(outcomes, "ok")
  /\ LET box_data == BoxAt(requested_urls[Len(requested_urls)])
         found    == ExtractPlusMinus(box_data, player_name)
     IN  IF found # None
           THEN /\ pm_pc' = "done"
                /\ pm_value' = found
                /\ UNCHANGED <<requested_urls, pending>>
           ELSE GoOn(Tail(pending))
  /\ UNCHANGED <<year, tx_vars, col_vars, app_vars, tw_vars, wp_vars, player_name, web>>

\* lines 59-64: a box score request fails; the competition is skipped
BoxscoreFails(err) ==
  /\ pm_pc = "boxscore"
  /\ outcomes' = Append(outcomes, err)
  /\ GoOn(Tail(pending))
  /\ UNCHANGED <<year, tx_vars, col_vars, app_vars, tw_vars, wp_vars, player_name, web>>

PlusMinusNext ==
  \/ \E name \in PlayerNames : GetLivePlusMinus(name)
  \/ ScoreboardArrives
  \/ \E err \in Errors : ScoreboardFails(err)
  \/ BoxscoreArrives
  \/ \E err \in Errors : BoxscoreFails(err)

PlusMinusSpec == PlusMinusInit /\ [][PlusMinusNext]_vars

\* the document of the box score requested last
LastBox == BoxAt(requested_urls[Len(requested_urls)])

RECURSIVE DictNodes(_)
\* every mapping of a JSON document
DictNodes(x) ==
  IF IsDict(x) THEN {x} \cup UNION {DictNodes(x.kv[i].v) : i \in 1..Len(x.kv)}
  ELSE IF IsList(x) THEN UNION {DictNodes(x.items[i]) : i \in 1..Len(x.items)}
  ELSE {}

\* the record names the player, whatever the case of the letters
NamesPlayer(record, name) ==
  /\ IsDict(Get(record, "athlete"))
  /\ \E key \in {"displayName", "fullName"} :
       /\ IsStr(Get(Get(record, "athlete"), key))
       /\ Casefold(Chars(Get(Get(record, "athlete"), key).s)) = Casefold(Chars(name))

\* a text that carries a plus/minus label
Labelled(text) ==
  LET lowered == Casefold(Strip(Chars(text)))
  IN  StartsWith(lowered, Chars("+/-")) \/ Contains(lowered, Chars("plus"))

\* the number a value stored under a plus/minus key stands for, if any
KeyValues(v) ==
  IF IsInt(v) THEN {v}
  ELSE IF IsStr(v) THEN {CoerceFloat(v), ParsePlusMinusString(v.s)} \ {None}
  ELSE {}

\* the plus/minus values of a record's stats: the values under the keys that
\* are recognised as plus/minus, or the value of a labelled text
PlusMinusValues(stats) ==
  IF IsStr(stats)
    THEN (IF Labelled(stats.s) THEN {ParsePlusMinusString(stats.s)} \ {None} ELSE {})
  ELSE IF IsDict(stats)
    THEN UNION {KeyValues(stats.kv[i].v) :
                  i \in {j \in 1..Len(stats.kv) : IsPlusMinusKey(stats.kv[j].k)}}
  ELSE {}

OwnPlusMinusValues(box, name) ==
  UNION {PlusMinusValues(Get(r, "stats")) :
           r \in {d \in DictNodes(box) : NamesPlayer(d, name)}}

(***************************************************************************)
(* C16. A value returned by get_live_plus_minus is a plus/minus statistic  *)
(* of the player's own record in the box score requested last: the value   *)
(* under a stats key recognised as plus/minus, or of a labelled text, of a *)
(* record whose athlete name equals player_name up to case.  The code      *)
(* also searches the values under every other key of stats (line 130) and  *)
(* returns the first number it meets, such as the points.                  *)
(***************************************************************************)
C16_OwnPlusMinus ==
  (pm_pc = "done" /\ pm_value # None) =>
    pm_value \in OwnPlusMinusValues(LastBox, player_name)

(***************************************************************************)
(* C17. get_live_plus_minus degrades to None: an empty name returns None   *)
(* with no request; a failed scoreboard request returns None with no box   *)
(* score request; the box scores are requested in the order of the         *)
(* competitions, a failed one is skipped and the next is tried; the call   *)
(* stops at the first box score that yields a value and returns None when  *)
(* none does.                                                              *)
(***************************************************************************)
\* the box score URLs of the scoreboard's competitions, in order
RefUrls ==
  LET refs == SelectSeq(
                Competitions(ListUnder(ScoreboardPayload(web.scoreboard), "events"), 1),
                LAMBDA c : Truthy(ExtractBoxscoreRef(c)))
  IN  [i \in 1..Len(refs) |-> ExtractBoxscoreRef(refs[i]).s]

\* whether the i-th request brought a box score with a value for the player
Yields(i) ==
  outcomes[i] = "ok" /\ ExtractPlusMinus(BoxAt(requested_urls[i]), player_name) # None

DefaultTypes == {"FREEAGENT", "WAIVER", "WAIVER_ERROR"}

\* the type names of the model: the default ones, another one, and one that
\* no set of transaction types holds
TypeNames == DefaultTypes \cup {"TRADE_ACCEPT", "BOGUS"}

TransactionTypeSets == SUBSET (TypeNames \ {"BOGUS"}) \ {{}}

\* what league_get answers: a mapping with or without the key transactions
TransactionData == [has_key : BOOLEAN, count : {0, 1}]

TransactionsInit ==
  /\ AppIdle
  /\ ColumnsIdle
  /\ year = MinWatchlistYear
  /\ TeamWatchlistIdle
  /\ WatchlistPlayersIdle
  /\ PlusMinusIdle
  /\ TRANSACTION_TYPES \in TransactionTypeSets
  /\ tx_data \in TransactionData
  /\ tx_pc = "idle"
  /\ tx_types = {}
  /\ tx_calls = <<>>
  /\ tx_error = "none"
  /\ tx_result = 0

\* a > b on sets: a is a proper superset of b
ProperSuperset(a, b) == b \subseteq a /\ a # b

\* the test of line 113
InvalidTypes(types) == ProperSuperset(types, TRANSACTION_TYPES)

\* lines 113-114: raise before any request
TransactionsRaises(types) ==
  /\ InvalidTypes(types)
  /\ tx_pc' = "raised"
  /\ tx_types' = types
  /\ tx_calls' = <<>>
  /\ tx_error' = "Invalid transaction type"
  /\ tx_result' = 0
  /\ UNCHANGED <<year, tw_vars, wp_vars, pm_vars, col_vars, app_vars, TRANSACTION_TYPES, tx_data>>

\* lines 116-127: the request, then one Transaction per item of
\* data['transactions'], or the KeyError of line 125
TransactionsRequests(types) ==
  /\ ~InvalidTypes(types)
  /\ tx_types' = types
  /\ tx_calls' = <<[view |-> "mTransactions2", filterType |-> types]>>
  /\ IF tx_data.has_key
       THEN tx_pc' = "done" /\ tx_error' = "none" /\ tx_result' = tx_data.count
       ELSE tx_pc' = "raised" /\ tx_error' = "KeyError" /\ tx_result' = 0
  /\ UNCHANGED <<year, tw_vars, wp_vars, pm_vars, col_vars, app_vars, TRANSACTION_TYPES, tx_data>>

TransactionsNext ==
  \E types \in SUBSET TypeNames :
    \/ TransactionsRaises(types)
    \/ TransactionsRequests(types)

TransactionsSpec == TransactionsInit /\ [][TransactionsNext]_vars

(***************************************************************************)
(* C30. transactions raises 'Invalid transaction type' before any request  *)
(* exactly when the requested types hold a value that is not a member of   *)
(* TRANSACTION_TYPES, and issues the request otherwise.  Line 113 compares *)
(* the sets with >, which holds only for a proper superset.                *)
(***************************************************************************)
C30_InvalidTypeRaises ==
  tx_pc # "idle" =>
    /\ (tx_error = "Invalid transaction type") <=> (tx_types \ TRANSACTION_TYPES # {})
    /\ tx_error = "Invalid transaction type" => tx_calls = <<>>
    /\ tx_error # "Invalid transaction type" => Len(tx_calls) = 1

(***************************************************************************)
(* NBAWatchlistApp: the column options of the player pool table and of the *)
(* watchlist table (examples/nba_watchlist_app.py 331-443).  Rows of the   *)
(* listbox are numbered from 1 here.                                       *)
(***************************************************************************)
LibraryIdle == TeamWatchlistIdle /\ WatchlistPlayersIdle /\ PlusMinusIdle /\ TransactionsIdle

lib_vars == <<year, tw_vars, wp_vars, pm_vars, tx_vars>>

ColumnsInit ==
  /\ AppIdle
  /\ year = MinWatchlistYear
  /\ LibraryIdle
  /\ ColumnsIdle

\* the user selects a row of the listbox of a table
SelectRow(key, row) ==
  /\ row \in 1..Len(column_order[key])
  /\ curselection' = [curselection EXCEPT ![key] = row]
  /\ UNCHANGED <<lib_vars, app_vars, column_order, visibility_vars, config_visible, displaycolumns,
                 last_click>>

\* _move_column(key, direction), lines 406-422
MoveColumn(key, direction) ==
  LET index     == curselection[key]
      new_index == index + direction
      order     == column_order[key]
      swapped   == [order EXCEPT ![index] = order[new_index], ![new_index] = order[index]]
  IN  /\ new_index >= 1
      /\ new_index <= Len(order)
      /\ column_order' = [column_order EXCEPT ![key] = swapped]
      /\ curselection' = [curselection EXCEPT ![key] = new_index]
      /\ displaycolumns' =
           [displaycolumns EXCEPT ![key] = VisibleColumns(swapped, visibility_vars[key])]
      /\ UNCHANGED <<lib_vars, app_vars, visibility_vars, config_visible, last_click>>

\* ToggleColumnVisibility without the test of lines 426-430
ToggleColumnVisibilityAlways(key, column_id) ==
  LET flipped == [visibility_vars[key] EXCEPT ![column_id] = ~@]
  IN  /\ column_id \in Range(column_order[key])
      /\ visibility_vars' = [visibility_vars EXCEPT ![key] = flipped]
      /\ config_visible' = [config_visible EXCEPT ![key][column_id] = flipped[column_id]]
      /\ displaycolumns' =
           [displaycolumns EXCEPT ![key] = VisibleColumns(column_order[key], flipped)]
      /\ last_click' = [key |-> key, column |-> column_id, reverted |-> FALSE]
      /\ UNCHANGED <<lib_vars, app_vars, column_order, curselection>>

\* a click on the checkbutton of a column (lines 354-360): the BooleanVar is
\* flipped, then _toggle_column_visibility(key, column_id) runs (lines 424-434)
ToggleColumnVisibility(key, column_id) ==
  LET flipped == [visibility_vars[key] EXCEPT ![column_id] = ~@]
      remaining_visible ==
        SelectSeq(column_order[key], LAMBDA cid : cid # column_id /\ flipped[cid])
  IN  /\ column_id \in Range(column_order[key])
      /\ IF ~flipped[column_id] /\ remaining_visible = <<>>
           THEN /\ last_click' = [key |-> key, column |-> column_id, reverted |-> TRUE]
                /\ UNCHANGED <<visibility_vars, config_visible, displaycolumns>>
           ELSE /\ visibility_vars' = [visibility_vars EXCEPT ![key] = flipped]
                /\ config_visible' =
                     [config_visible EXCEPT ![key][column_id] = flipped[column_id]]
                /\ displaycolumns' =
                     [displaycolumns EXCEPT
                        ![key] = VisibleColumns(column_order[key], flipped)]
                /\ last_click' = [key |-> key, column |-> column_id, reverted |-> FALSE]
      /\ UNCHANGED <<lib_vars, app_vars, column_order, curselection>>

ColumnsNext ==
  \E key \in DOMAIN Columns :
    \/ \E row \in 1..3 : SelectRow(key, row)
    \/ \E direction \in {-1, 1} : MoveColumn(key, direction)
    \/ \E column_id \in Range(Columns[key]) : ToggleColumnVisibility(key, column_id)

ColumnsSpec == ColumnsInit /\ [][ColumnsNext]_vars

(***************************************************************************)
(* C27. In each table at least one column is visible after any sequence of *)
(* column toggles and moves: a toggle that would hide the last visible     *)
(* column is reverted and changes neither the visible flag of the column   *)
(* nor the displayed columns.                                              *)
(***************************************************************************)
Shown(key) == {c \in Range(column_order[key]) : visibility_vars[key][c]}

C27_OneColumnVisible ==
  \A key \in DOMAIN Columns :
    /\ Shown(key) # {}
    /\ displaycolumns[key] # <<>>
    /\ Range(displaycolumns[key]) = Shown(key)
    /\ config_visible[key] = visibility_vars[key]
    /\ last_click.reverted /\ last_click.key = key =>
         /\ Shown(key) = {last_click.column}
         /\ displaycolumns[key] = <<last_click.column>>
         /\ config_visible[key][last_click.column]

\* the only visible column of the watchlist table was clicked and stayed,
\* after the columns had been swapped
C27_Witness ==
  /\ last_click = [key |-> "watchlist", column |-> "player", reverted |-> TRUE]
  /\ column_order["watchlist"] = <<"availability", "player">>
  /\ displaycolumns["watchlist"] = <<"player">>

(***************************************************************************)
(* NBAWatchlistApp: today's metrics of a player and the live plus/minus    *)
(* cache (examples/nba_watchlist_app.py 1093-1129, 1179-1212).  Numbers    *)
(* are integers; dates are left out of the stats and schedule entries.     *)
(***************************************************************************)
Abs(n) == IF n < 0 THEN -n ELSE n

\* f"{value:.1f}" of an integer
Format1(n) == (IF n < 0 THEN "-" ELSE "") \o ToString(Abs(n)) \o ".0"

\* f"{value:+.1f}" of an integer
SignedFormat1(n) == (IF n < 0 THEN "-" ELSE "+") \o ToString(Abs(n)) \o ".0"

\* str(value)
PyStr(value) ==
  CASE value.t = "str"  -> value.s
    [] value.t = "int"  -> ToString(value.n)
    [] value.t = "null" -> "None"

\* _lookup_stat, lines 1179-1184
LookupStat(stats, keys) ==
  LET hits == SelectSeq(keys, LAMBDA key : Get(stats, key) # None)
  IN  IF hits = <<>> THEN "-"
      ELSE IF IsInt(Get(stats, hits[1])) THEN Format1(Get(stats, hits[1]).n)
      ELSE PyStr(Get(stats, hits[1]))

\* line 1188; the first key is "+/" followed by the minus sign U+2212
plus_keys == <<"+/U+2212", "+/-", "PLUS_MINUS", "PM", "45">>

\* "PLUS" in key.upper(), on the keys of the modelled totals
UpperHasPlus(key) == key \in {"PLUS_MINUS", "plusMinus", "PlusMinus"}

\* the rendering of a plus/minus value, lines 1192 and 1195
PlusMinusText(value) == IF IsInt(value) THEN SignedFormat1(value.n) ELSE PyStr(value)

\* _lookup_plus_minus, lines 1187-1196
LookupPlusMinus(stats) ==
  LET exact == SelectSeq(plus_keys, LAMBDA key : HasKey(stats, key))
      scan  == SelectSeq(stats.kv, LAMBDA p : UpperHasPlus(p.k))
  IN  IF exact # <<>> THEN PlusMinusText(Get(stats, exact[1]))
      ELSE IF scan # <<>> THEN PlusMinusText(scan[1].v)
      ELSE "-"

\* get_live_plus_minus raised
Raised == [t |-> "raised"]

\* what get_live_plus_minus(player.name) does: a number, None, or an exception
Outcomes == {JInt(5), JInt(-3), None, Raised}

\* FetchLivePlusMinus where the cache is neither read nor written
FetchUncached(live_cache, made, playerId, outcome) ==
  [display |-> IF IsInt(outcome) THEN SignedFormat1(outcome.n) ELSE "-",
   cache   |-> live_cache,
   made    |-> [made EXCEPT ![playerId] = Append(@, outcome)]]

\* _fetch_live_plus_minus, lines 1198-1212: the display, the cache and the
\* get_live_plus_minus calls made, after it
FetchLivePlusMinus(live_cache, made, playerId, outcome) ==
  IF live_cache[playerId] # NoneStr
    THEN [display |-> live_cache[playerId], cache |-> live_cache, made |-> made]
    ELSE LET display == IF IsInt(outcome) THEN SignedFormat1(outcome.n) ELSE "-"
         IN  [display |-> display,
              cache   |-> [live_cache EXCEPT ![playerId] = display],
              made    |-> [made EXCEPT ![playerId] = Append(@, outcome)]]

\* the metrics returned when there is nothing to look up (lines 1095, 1111)
NoBoxScore(status) ==
  [status |-> status, points |-> None, minutes |-> "-", fouls |-> "-", plus_minus |-> "-"]

\* TodayMetrics that asks for the live value whenever a league is loaded
TodayMetricsAlwaysLive(loaded, stat_entry, schedule_entry) ==
  IF ~loaded THEN [metrics |-> NoBoxScore(""), fetch |-> FALSE]
  ELSE [metrics |-> NoBoxScore("No game today."), fetch |-> TRUE]

\* _get_today_metrics up to line 1127: the metrics, and whether line 1128
\* replaces plus_minus by _fetch_live_plus_minus(player)
TodayMetrics(loaded, stat_entry, schedule_entry) ==
  IF ~loaded THEN [metrics |-> NoBoxScore(""), fetch |-> FALSE]
  ELSE IF ~Truthy(stat_entry)
    THEN [metrics |->
            NoBoxScore(IF Truthy(schedule_entry)
                         THEN "Scheduled vs " \o
                                (IF HasKey(schedule_entry, "team")
                                   THEN PyStr(Get(schedule_entry, "team")) ELSE "TBD")
                         ELSE "No game today."),
          fetch |-> FALSE]
  ELSE
    LET opponent == IF HasKey(stat_entry, "team") THEN Get(stat_entry, "team")
                    ELSE IF Truthy(schedule_entry) THEN Get(schedule_entry, "team")
                    ELSE None
        applied  == Get(stat_entry, "applied_total")
        totals   == PyOr(Get(stat_entry, "total"), JDict(<<>>))
        plus_minus == LookupPlusMinus(totals)
    IN  [metrics |->
           [status     |-> IF Truthy(opponent) THEN "vs " \o PyStr(opponent)
                           ELSE "Current game",
            points     |-> IF Truthy(applied) THEN applied ELSE JInt(0),
            minutes    |-> LookupStat(totals, <<"MIN", "MPG">>),
            fouls      |-> LookupStat(totals, <<"PF">>),
            plus_minus |-> plus_minus],
         fetch |-> plus_minus \in {"-", ""}]

\* the metrics of the players a handler looks at, in order: the cache and the
\* get_live_plus_minus calls after them (lines 868, 888, 1023)
RECURSIVE MetricPass(_, _, _, _)
MetricPass(ids, live_cache, made, outcome) ==
  IF ids = <<>> THEN [cache |-> live_cache, made |-> made]
  ELSE LET fetched ==
             IF TodayMetrics(TRUE, today[Head(ids)], None).fetch
               THEN FetchLivePlusMinus(live_cache, made, Head(ids), outcome)
               ELSE [cache |-> live_cache, made |-> made]
       IN  MetricPass(Tail(ids), fetched.cache, fetched.made, outcome)

(***************************************************************************)
(* NBAWatchlistApp: the watchlist and its preferences                      *)
(* (examples/nba_watchlist_app.py 296-329, 445-682, 727-856).  The         *)
(* credentials and the column widths of the preferences are left out.      *)
(***************************************************************************)
\* the texts of the League ID field
LeagueIdFields == {"", "7", " 7", "07", "8"}
\* the texts of the Season Year field
YearFields == {"", "2024"}

\* str.strip() on the texts of the fields
FieldStrip(text) == IF text = " 7" THEN "7" ELSE text

\* whether int(text) succeeds, and its value
IsIntText(text) == text \in {"7", "07", "8", "2024"}
IntOf(text) ==
  CASE text \in {"7", "07"} -> 7
    [] text = "8"           -> 8
    [] text = "2024"        -> 2024

\* _compose_watchlist_key, lines 806-812, on str(league_id) and str(year)
ComposeWatchlistKey(league_str, year_str) ==
  LET l == IF league_str = NoneStr THEN "" ELSE FieldStrip(league_str)
      y == IF year_str = NoneStr THEN "" ELSE FieldStrip(year_str)
  IN  IF l # "" /\ y # "" THEN l \o ":" \o y ELSE NoneStr

\* _current_watchlist_key, lines 814-823
CurrentWatchlistKey ==
  IF league.loaded
    THEN ComposeWatchlistKey(ToString(league.league_id), ToString(league.year))
    ELSE ComposeWatchlistKey(FieldStrip(league_id_var), FieldStrip(year_var))

RECURSIVE Sanitize(_)
\* _sanitize_watchlist_ids, lines 825-839, on integer ids
Sanitize(ids) ==
  IF ids = <<>> THEN <<>>
  ELSE LET front == Sanitize(SubSeq(ids, 1, Len(ids) - 1))
       IN  IF ids[Len(ids)] \in Range(front) THEN front ELSE Append(front, ids[Len(ids)])

\* _load_watchlist_ids, lines 841-850; the stored watchlists are a set of
\* [key, ids] with one element per key
LoadWatchlistIds(preferences, watchlist_key) ==
  IF watchlist_key \in {NoneStr, ""} THEN <<>>
  ELSE IF \E w \in preferences.watchlists : w.key = watchlist_key
    THEN Sanitize((CHOOSE w \in preferences.watchlists : w.key = watchlist_key).ids)
    ELSE <<>>

\* _save_preferences, lines 727-780
SavePreferences(preferences, league_id, year_text, watchlist_key, ids) ==
  LET others == {w \in preferences.watchlists : w.key # watchlist_key}
      stored ==
        IF watchlist_key = NoneStr THEN preferences.watchlists
        ELSE IF Sanitize(ids) # <<>>
          THEN others \cup {[key |-> watchlist_key, ids |-> Sanitize(ids)]}
          ELSE others
      active_key ==
        IF league_id # NoneStr /\ year_text # NoneStr
          THEN ComposeWatchlistKey(league_id, year_text)
          ELSE NoneStr
  IN  [league_id  |-> IF league_id # NoneStr THEN league_id ELSE preferences.league_id,
       year       |-> IF year_text # NoneStr THEN year_text ELSE preferences.year,
       watchlists |-> IF active_key # NoneStr
                        THEN {w \in stored : w.key = active_key}
                        ELSE stored]

\* _persist_current_watchlist, lines 852-856
PersistCurrentWatchlist(ids) ==
  IF CurrentWatchlistKey = NoneStr THEN saved_preferences
  ELSE SavePreferences(saved_preferences, NoneStr, NoneStr, CurrentWatchlistKey, ids)

\* AppendMissing without the test `not in self.watchlist_ids`
AppendAll(ids, new_ids) == ids \o new_ids

RECURSIVE AppendMissing(_, _)
\* the loops of lines 502-505, 532-535, 572-579 and the test of line 602
AppendMissing(ids, new_ids) ==
  IF new_ids = <<>> THEN ids
  ELSE AppendMissing(IF Head(new_ids) \in Range(ids) THEN ids
                     ELSE Append(ids, Head(new_ids)),
                     Tail(new_ids))

\* list.remove(player_id): the first occurrence is taken out
ListRemove(ids, player_id) ==
  LET first == CHOOSE i \in 1..Len(ids) :
                 ids[i] = player_id /\ \A j \in 1..(i - 1) : ids[j] # player_id
  IN  SubSeq(ids, 1, first - 1) \o SubSeq(ids, first + 1, Len(ids))

RECURSIVE RemoveAll(_, _)
\* the loop of lines 616-623
RemoveAll(ids, selections) ==
  IF selections = <<>> THEN ids
  ELSE RemoveAll(IF Head(selections) \in Range(ids) THEN ListRemove(ids, Head(selections))
                 ELSE ids,
                 Tail(selections))

\* what the league answers while a handler runs: pool are the players of the
\* rosters and the free agents, found the players player_info returns (none
\* when it raises), live what get_live_plus_minus does
Environments ==
  [pool : {<<>>, <<1, 2>>}, found : {{}, {1}, Ids}, live : {JInt(5), Raised}]

\* the players whose metrics refresh_watchlist computes (lines 631-680)
RefreshedPlayers(ids, env) ==
  IF ids = <<>> \/ \A i \in 1..Len(ids) : ids[i] \notin env.found THEN <<>>
  ELSE env.pool \o SelectSeq(ids, LAMBDA id : id \in env.found)

\* the lists of player ids a roster, an ESPN watchlist or a selection holds
IdLists == {<<>>, <<1>>, <<2>>, <<2, 1>>, <<1, 1>>}

\* the user edits the League ID and Season Year fields
EditFields(league_text, year_text) ==
  /\ ~closed
  /\ league_id_var' = league_text
  /\ year_var' = year_text
  /\ UNCHANGED <<lib_vars, col_vars, league, watchlist_ids, saved_preferences, closed,
                 today, cache, live_calls, last_metrics>>

\* load_league, lines 445-494; ok tells whether League(...) succeeds
LoadLeague(ok, env) ==
  LET league_id == FieldStrip(league_id_var)
      year_text == FieldStrip(year_var)
      watchlist_key == ComposeWatchlistKey(league_id, year_text)
      saved_watchlist == LoadWatchlistIds(saved_preferences, watchlist_key)
      after == MetricPass(env.pool \o RefreshedPlayers(saved_watchlist, env),
                          EmptyCache, [id \in Ids |-> <<>>], env.live)
  IN  /\ ~closed
      /\ IF league_id = "" \/ year_text = "" \/ ~IsIntText(league_id)
              \/ ~IsIntText(year_text) \/ ~ok
           THEN UNCHANGED <<league, watchlist_ids, saved_preferences, cache, live_calls>>
           ELSE /\ league' = [loaded |-> TRUE, league_id |-> IntOf(league_id),
                              year |-> IntOf(year_text)]
                /\ watchlist_ids' = saved_watchlist
                /\ cache' = after.cache
                /\ live_calls' = after.made
                /\ saved_preferences' =
                     SavePreferences(saved_preferences, league_id, year_text,
                                     watchlist_key, saved_watchlist)
      /\ UNCHANGED <<lib_vars, col_vars, league_id_var, year_var, closed, today,
                     last_metrics>>

\* the common end of the handlers that add players: the new ids are appended,
\* and if any was, the watchlist is persisted and refreshed
AddIds(new_ids, env) ==
  LET ids   == AppendMissing(watchlist_ids, new_ids)
      after == MetricPass(RefreshedPlayers(ids, env), cache, live_calls, env.live)
  IN  /\ ~closed
      /\ IF ~league.loaded \/ ids = watchlist_ids
           THEN UNCHANGED <<watchlist_ids, saved_preferences, cache, live_calls>>
           ELSE /\ watchlist_ids' = ids
                /\ saved_preferences' = PersistCurrentWatchlist(ids)
                /\ cache' = after.cache
                /\ live_calls' = after.made
      /\ UNCHANGED <<lib_vars, col_vars, league, league_id_var, year_var, closed, today,
                     last_metrics>>

\* add_player, lines 588-608: resolved is what _resolve_player_id finds, the
\* empty list when the query is empty or names no player
AddPlayer(resolved, env) == Len(resolved) <= 1 /\ AddIds(resolved, env)

\* add_selected_team, lines 496-511: roster is the roster of the selected
\* team, the empty list when no team is selected
AddSelectedTeam(roster, env) == AddIds(roster, env)

\* import_team_watchlist, lines 513-542: watched are the players
\* league.team_watchlist returns, the empty list when it raises
ImportTeamWatchlist(watched, env) == AddIds(watched, env)

\* add_selected_players_from_directory, lines 561-586
AddSelectedPlayersFromDirectory(selections, env) == AddIds(selections, env)

\* remove_selected, lines 610-629
RemoveSelected(selections) ==
  LET ids == RemoveAll(watchlist_ids, selections)
  IN  /\ ~closed
      /\ selections # <<>>
      /\ watchlist_ids' = ids
      /\ saved_preferences' =
           IF ids # watchlist_ids THEN PersistCurrentWatchlist(ids) ELSE saved_preferences
      /\ UNCHANGED <<lib_vars, col_vars, league, league_id_var, year_var, closed, today,
                     cache, live_calls, last_metrics>>

\* refresh_watchlist, lines 631-680, as the handler of its button
RefreshWatchlist(env) ==
  LET after == MetricPass(RefreshedPlayers(watchlist_ids, env), cache, live_calls, env.live)
  IN  /\ ~closed
      /\ league.loaded
      /\ cache' = after.cache
      /\ live_calls' = after.made
      /\ UNCHANGED <<lib_vars, col_vars, league, league_id_var, year_var, watchlist_ids,
                     saved_preferences, closed, today, last_metrics>>

\* _on_close, lines 296-329
OnClose ==
  LET league_id == IF FieldStrip(league_id_var) # "" THEN FieldStrip(league_id_var)
                   ELSE saved_preferences.league_id
      year_text == IF FieldStrip(year_var) # "" THEN FieldStrip(year_var)
                   ELSE saved_preferences.year
  IN  /\ ~closed
      /\ saved_preferences' =
           SavePreferences(saved_preferences, league_id, year_text,
                           CurrentWatchlistKey, watchlist_ids)
      /\ closed' = TRUE
      /\ UNCHANGED <<lib_vars, col_vars, league, league_id_var, year_var, watchlist_ids,
                     today, cache, live_calls, last_metrics>>

\* a direct call of _get_today_metrics(player), lines 1093-1129
GetTodayMetrics(player, outcome) ==
  LET found   == TodayMetrics(league.loaded, player.stat_entry, player.schedule_entry)
      fetched == FetchLivePlusMinus(cache, live_calls, player.playerId, outcome)
      call    == [called |-> TRUE, player |-> player, loaded |-> league.loaded,
                  cached_before |-> cache[player.playerId]]
  IN  /\ ~closed
      /\ IF found.fetch
           THEN /\ last_metrics' =
                     [call |-> call, fetched |-> TRUE,
                      metrics |-> [found.metrics EXCEPT !.plus_minus = fetched.display]]
                /\ cache' = fetched.cache
                /\ live_calls' = fetched.made
           ELSE /\ last_metrics' = [call |-> call, fetched |-> FALSE,
                                    metrics |-> found.metrics]
                /\ UNCHANGED <<cache, live_calls>>
      /\ UNCHANGED <<lib_vars, col_vars, league, league_id_var, year_var, watchlist_ids,
                     saved_preferences, closed, today>>

\* the preferences file at the start: none, or one written by an earlier run
PreferenceFiles ==
  {[league_id |-> "", year |-> "", watchlists |-> {}],
   [league_id |-> "7", year |-> "2024",
    watchlists |-> {[key |-> "7:2024", ids |-> <<2, 1>>]}]}

\* __init__ and _build_widgets (lines 45-50, 100-105): the fields show the
\* saved league and year, the year of today when none is saved
AppStart(preferences) ==
  /\ league = NoLeague
  /\ saved_preferences = preferences
  /\ league_id_var = preferences.league_id
  /\ year_var = IF preferences.year # "" THEN preferences.year ELSE "2024"
  /\ watchlist_ids = <<>>
  /\ closed = FALSE
  /\ cache = EmptyCache
  /\ live_calls = [id \in Ids |-> <<>>]
  /\ last_metrics = NoMetrics

\* the app on a day without games: no player has a stats entry
AppInit ==
  /\ year = MinWatchlistYear
  /\ LibraryIdle
  /\ ColumnsIdle
  /\ \E preferences \in PreferenceFiles : AppStart(preferences)
  /\ today = [id \in Ids |-> None]

QuietDay == [pool |-> <<1, 2>>, found |-> Ids, live |-> None]

AppNext ==
  \/ \E league_text \in LeagueIdFields, year_text \in YearFields :
       EditFields(league_text, year_text)
  \/ \E ok \in BOOLEAN : LoadLeague(ok, QuietDay)
  \/ \E resolved \in IdLists : AddPlayer(resolved, QuietDay)
  \/ \E roster \in IdLists : AddSelectedTeam(roster, QuietDay)
  \/ \E watched \in IdLists : ImportTeamWatchlist(watched, QuietDay)
  \/ \E selections \in IdLists : AddSelectedPlayersFromDirectory(selections, QuietDay)
  \/ \E selections \in IdLists : RemoveSelected(selections)
  \/ RefreshWatchlist(QuietDay)
  \/ OnClose

AppSpec == AppInit /\ [][AppNext]_vars

\* a stats entry of the current scoring period with the given totals
StatEntry(totals) ==
  JDict(<<KV("applied_total", JInt(30))>> \o Field("total", totals))

Totals(plus_minus) ==
  JDict(<<KV("PF", JInt(2)), KV("MIN", JInt(34))>> \o plus_minus)

\* the stats entries of the model: none, empty, without totals (as in the
\* first test of test_nba_watchlist_app.py), and with totals that hold a
\* plus/minus number, none, None or an empty text under one of its keys
StatEntries ==
  {None, JDict(<<>>), StatEntry(None), StatEntry(Totals(<<>>)),
   StatEntry(Totals(<<KV("+/-", JInt(5))>>)),
   StatEntry(Totals(<<KV("plusMinus", JInt(-3))>>)),
   StatEntry(Totals(<<KV("PM", JInt(0))>>)),
   StatEntry(Totals(<<KV("PM", None)>>)),
   StatEntry(Totals(<<KV("+/-", JStr(""))>>)),
   StatEntry(Totals(<<KV("pm", JInt(4))>>))}

\* the players _get_today_metrics is called with directly
Players ==
  [playerId : {1}, stat_entry : StatEntries, schedule_entry : {None}]
    \cup [playerId : {1}, stat_entry : {None, StatEntry(Totals(<<>>))},
          schedule_entry : {JDict(<<KV("team", JStr("BOS"))>>)}]

\* what each player did today: nothing, a game with a plus/minus in its
\* totals, a game without
Worlds ==
  [Ids -> {None, StatEntry(Totals(<<KV("+/-", JInt(5))>>)), StatEntry(Totals(<<>>))}]

MetricsInit ==
  /\ year = MinWatchlistYear
  /\ LibraryIdle
  /\ ColumnsIdle
  /\ AppStart([league_id |-> "7", year |-> "2024",
               watchlists |-> {[key |-> "7:2024", ids |-> <<2, 1>>]}])
  /\ today \in Worlds

MetricsNext ==
  \/ \E ok \in BOOLEAN, env \in Environments : LoadLeague(ok, env)
  \/ \E env \in Environments : RefreshWatchlist(env)
  \/ \E player \in Players, outcome \in Outcomes : GetTodayMetrics(player, outcome)

MetricsSpec == MetricsInit /\ [][MetricsNext]_vars

(***************************************************************************)
(* C23. _get_today_metrics asks for the live plus/minus only when a league *)
(* is loaded, the player has a stats entry of the current scoring period   *)
(* and the totals of that entry hold no plus/minus number.  Without a      *)
(* stats entry it returns points None and "-" for minutes, fouls and       *)
(* plus_minus and does not fetch; when the totals hold a plus/minus number *)
(* it returns that number with its sign and does not fetch.                *)
(***************************************************************************)
\* the plus/minus numbers in the totals of a stats entry
PlusMinusNumbers(stat_entry) ==
  IF IsDict(stat_entry) /\ IsDict(Get(stat_entry, "total"))
    THEN {p.v.n : p \in {q \in Range(Get(stat_entry, "total").kv) :
                           /\ q.k \in {"+/-", "PLUS_MINUS", "PM", "45", "plusMinus"}
                           /\ IsInt(q.v)}}
    ELSE {}

Signed(n) ==
  CASE n = 5  -> "+5.0"
    [] n = -3 -> "-3.0"
    [] n = 0  -> "+0.0"
    [] OTHER  -> "?"

Shown1(outcome) ==
  CASE outcome = JInt(5)  -> "+5.0"
    [] outcome = JInt(-3) -> "-3.0"
    [] OTHER              -> "-"

C29_OneLiveCallPerPlayer ==
  /\ \A id \in Ids :
       /\ Len(live_calls[id]) <= 1
       /\ (cache[id] # NoneStr) <=> (Len(live_calls[id]) = 1)
       /\ Len(live_calls[id]) = 1 => cache[id] = Shown1(live_calls[id][1])
  /\ (last_metrics.call.called /\ last_metrics.fetched
        /\ last_metrics.call.cached_before # NoneStr) =>
       last_metrics.metrics.plus_minus = last_metrics.call.cached_before

\* a later call for a player whose failed fetch is cached
C29_Witness ==
  /\ league.loaded
  /\ last_metrics.call.called
  /\ last_metrics.fetched
  /\ last_metrics.call.cached_before = "-"
  /\ live_calls[1] \in {<<None>>, <<Raised>>}
  /\ cache[2] = "+5.0"

(***************************************************************************)
(* C26. watchlist_ids never holds a player id twice: after any sequence of *)
(* load_league, add_player, add_selected_team, import_team_watchlist,      *)
(* add_selected_players_from_directory and remove_selected every id occurs *)
(* at most once; adding an id that is present leaves the list as it is,    *)
(* and removing an id leaves the order of the others as it is.             *)
(***************************************************************************)
NoDuplicates(ids) == \A i, j \in 1..Len(ids) : ids[i] = ids[j] => i = j

\* ids with some new ids appended, ids with some ids taken out, or the list
\* stored for a league
Extended(before, after) ==
  Len(before) <= Len(after) /\ SubSeq(after, 1, Len(before)) = before

Reduced(before, after) == after = SelectSeq(before, LAMBDA id : id \in Range(after))

C26_NoDuplicateIds ==
  /\ []NoDuplicates(watchlist_ids)
  /\ [][\/ Extended(watchlist_ids, watchlist_ids')
        \/ Reduced(watchlist_ids, watchlist_ids')
        \/ \E w \in saved_preferences.watchlists : watchlist_ids' = w.ids]_vars

\* a watchlist built by adding and removing players
C26_Witness ==
  /\ league.loaded
  /\ watchlist_ids = <<1, 2>>
  /\ \E w \in saved_preferences.watchlists : w.ids = <<1, 2>>

(***************************************************************************)
(* C28. The watchlist in memory survives closing the app: after a load of  *)
(* a league, any additions and removals and any edits of the League ID and *)
(* Season Year fields, the preferences _on_close writes hold the current   *)
(* non-empty watchlist_ids under the key of the loaded league, so that     *)
(* _load_watchlist_ids with that key gives the same ids in the same order. *)
(* _save_preferences keeps only the watchlist of the key composed from the *)
(* fields (lines 747-748, 768-769).                                        *)
(***************************************************************************)
LoadedKey == ToString(league.league_id) \o ":" \o ToString(league.year)

StoredIds(key) ==
  IF \E w \in saved_preferences.watchlists : w.key = key
    THEN (CHOOSE w \in saved_preferences.watchlists : w.key = key).ids
    ELSE <<>>

C28_WatchlistSurvivesClose ==
  (closed /\ league.loaded /\ watchlist_ids # <<>>) => StoredIds(LoadedKey) = watchlist_ids

====
